---- MODULE Spec2Model ----
(***************************************************************************)
(* State-machine model of the command execution core of EasyFullControl:   *)
(* CommandExecution (finish / override_schedule / update_location), the    *)
(* ProgressTracker, EasyCommandHandle (stop / follow_new_path / dock) and   *)
(* EasyRobotUpdateHandle::update_position, for one robot and its worker.    *)
(*                                                                         *)
(* Lengths are in units of 0.1 m, so that the merge thresholds 0.1 m and    *)
(* 1.0 m are the integers 1 and 10; distances are compared squared.         *)
(***************************************************************************)
EXTENDS Integers, Sequences, FiniteSets, TLC

\* ------------------------------------------------------------------ bounds
\* Calls made by the fleet adapter and the integrator together (stop,
\* follow_new_path, dock, finished, override_schedule, release,
\* update_position) plus changes of the planner's availability; it bounds the
\* commands, trackers, overrides and queued tasks as well.
MaxCalls == 4

\* How many paths the fleet adapter hands to one robot in a run that follows
\* its paths to the end.
MaxPaths == 2

\* How many path-finding requests one GoToPlace event issues.
MaxAttempts == 3

\* ------------------------------------------------------- navigation graph
\* Graph of the planner configuration: waypoint i is WaypointLocations[i+1].
\* W0, W1, W2 lie on a line, W3 is off it and W4 is next to W3.
WaypointLocations == << <<0, 0>>, <<20, 0>>, <<40, 0>>, <<40, 20>>, <<40, 21>> >>

\* Lane i is GraphLanes[i+1]; lane 1 is the reverse of lane 0 and lane 2
\* carries a Dock event.
GraphLanes ==
  << [entry |-> 0, exit |-> 1, dock |-> "none"],
     [entry |-> 1, exit |-> 0, dock |-> "none"],
     [entry |-> 1, exit |-> 2, dock |-> "dock_a"],
     [entry |-> 2, exit |-> 3, dock |-> "none"],
     [entry |-> 3, exit |-> 4, dock |-> "none"] >>

num_waypoints == Len(WaypointLocations)
num_lanes == Len(GraphLanes)
get_location(wp) == WaypointLocations[wp + 1]
get_lane(lane_id) == GraphLanes[lane_id + 1]

\* NavParams thresholds (0.1 m and 1.0 m in units of 0.1 m).
max_merge_waypoint_distance == 1
max_merge_lane_distance == 10
skip_rotation_commands == TRUE

NoLane == -1
NoIndex == -1
NoOverride == [plan_id |-> 0, stubborn |-> 0, route |-> <<>>]
NoDelay == [plan_id |-> 0, t_expected |-> 0, threshold |-> 0]
\* Stands for the expected arrival of a dock command in a delay it writes.
DockEstimate == -1

\* --------------------------------------------------------------- helpers
Last(q) == q[Len(q)]
Front(q) == SubSeq(q, 1, Len(q) - 1)
Reverse(q) == [i \in 1..Len(q) |-> q[Len(q) + 1 - i]]
Range(q) == {q[i] : i \in 1..Len(q)}
Dot(a, b) == a[1] * b[1] + a[2] * b[2]
Sub(a, b) == <<a[1] - b[1], a[2] - b[2]>>
Norm2(a) == Dot(a, a)

LaneIds == [i \in 1..num_lanes |-> i - 1]

\* Graph::lanes_from(wp): the lanes leaving waypoint wp.
lanes_from(wp) == SelectSeq(LaneIds, LAMBDA l : get_lane(l).entry = wp)

\* Graph::lane_from(from, to): a lane from one waypoint to another, or NoLane.
lane_from(from, to) ==
  LET ls == SelectSeq(LaneIds,
                      LAMBDA l : get_lane(l).entry = from /\ get_lane(l).exit = to)
  IN  IF ls = <<>> THEN NoLane ELSE ls[1]

\* ----------------------------------------------------------------- state
VARIABLES
  planner,           \* context->planner() is non-null
  closed_lanes,      \* planner->get_configuration().lane_closures()
  location,          \* context->location(): the robot's Plan::StartSet
  itinerary,         \* context->itinerary(): plan ids and cumulative delay
  data,              \* CommandExecution::Implementation::Data of each command
  update_fn,         \* ActivityIdentifier::update_fn of each command is non-null
  impl,              \* Implementation of each command: begin kind and finisher
  trackers,          \* every ProgressTracker made so far
  current_progress,  \* EasyCommandHandle::current_progress (0 is nullptr)
  worker,            \* tasks scheduled on context->worker(), oldest first
  stubborn,          \* every StubbornOverride made by override_schedule
  replan_requested,  \* context->request_replan() was called and not yet served
  hist,              \* per command: what has been invoked for it so far
  fault,             \* an empty std::function was called, or a wild read crashed
  calls,             \* calls and planner changes made so far
  fleet,             \* EasyFullControl: cmd_handles, the fleet handle's robots
  go_to_place        \* a GoToPlace::Active event of the robot's task

vars == <<planner, closed_lanes, location, itinerary, data, update_fn, impl,
          trackers, current_progress, worker, stubborn, replan_requested, hist,
          fault, calls, fleet, go_to_place>>

\* The program state as one record, for operators that model nested calls.
Cur ==
  [planner |-> planner, closed_lanes |-> closed_lanes, location |-> location,
   itinerary |-> itinerary, data |-> data, update_fn |-> update_fn,
   impl |-> impl, trackers |-> trackers, current_progress |-> current_progress,
   worker |-> worker, stubborn |-> stubborn,
   replan_requested |-> replan_requested, hist |-> hist, fault |-> fault,
   calls |-> calls, fleet |-> fleet, go_to_place |-> go_to_place]

Commit(s) ==
  /\ planner' = s.planner
  /\ closed_lanes' = s.closed_lanes
  /\ location' = s.location
  /\ itinerary' = s.itinerary
  /\ data' = s.data
  /\ update_fn' = s.update_fn
  /\ impl' = s.impl
  /\ trackers' = s.trackers
  /\ current_progress' = s.current_progress
  /\ worker' = s.worker
  /\ stubborn' = s.stubborn
  /\ replan_requested' = s.replan_requested
  /\ hist' = s.hist
  /\ fault' = s.fault
  /\ calls' = s.calls
  /\ fleet' = s.fleet
  /\ go_to_place' = s.go_to_place

Cmds == 1..Len(data)
Trackers == 1..Len(trackers)
Overrides == 1..Len(stubborn)

\* What has been invoked for a command so far (bookkeeping, read by no code).
NoHist ==
  [begun |-> 0, finish_tasks |-> 0, advanced |-> 0, replanned |-> 0,
   auto_released |-> 0, stopped |-> 0, stopped_live |-> FALSE,
   estimated |-> FALSE, estimates |-> 0, estimate_location |-> <<>>,
   dock_name |-> "",
   path |-> <<>>, read |-> {}]

Task(type, cmd, finisher, so, arg) ==
  [type |-> type, cmd |-> cmd, finisher |-> finisher, stubborn |-> so, arg |-> arg]

\* ------------------------------------------------- schedule-override tokens
\* weak_ptr<StubbornOverride>::lock() succeeds while the caller's handle or a
\* queued override task still owns the StubbornOverride.
stubborn_alive(s, o) == s.stubborn[o].handle \/ s.stubborn[o].task

\* RobotContext::be_stubborn hands out a token; the robot is stubborn while a
\* StubbornOverride holds one.
is_stubborn(s) == \E o \in 1..Len(s.stubborn) : s.stubborn[o].stubbornness

\* A StubbornOverride that keeps its token after its last owner is gone.
destroy_unowned_keeps(s) == s

\* ~StubbornOverride: when its last owner lets go, its token goes with it.
destroy_unowned(s) ==
  [s EXCEPT !.stubborn =
     [o \in 1..Len(s.stubborn) |->
        IF stubborn_alive(s, o) THEN s.stubborn[o]
        ELSE [s.stubborn[o] EXCEPT !.stubbornness = FALSE]]]

\* release_stubbornness that clears nothing.
release_stubbornness_skipped(s, c) == s

\* Data::release_stubbornness
release_stubbornness(s, c) ==
  IF s.data[c].schedule_override # NoOverride
  THEN LET o == s.data[c].schedule_override.stubborn
       IN  IF stubborn_alive(s, o)
           THEN [s EXCEPT !.stubborn[o].stubbornness = FALSE]
           ELSE s
  ELSE s

\* Stubbornness::release: the caller's handle lets go of the StubbornOverride.
release(s, o) == destroy_unowned([s EXCEPT !.stubborn[o].handle = FALSE])

\* RobotContext::request_replan
request_replan(s) == [s EXCEPT !.replan_requested = TRUE]

\* ---------------------------------------------------------- finish / next
\* finish that schedules nothing, as with an expired context.
finish_drops_task(s, c, from) == s

\* CommandExecution::Implementation::finish: schedules the finish task, which
\* captures the command's finisher. from tells a call made inside the begin
\* callback ("begin") from a later one ("later"); no code reads it.
finish(s, c, from) ==
  [s EXCEPT !.worker = Append(@, Task("finish", c, s.impl[c].finisher, 0, from))]

\* A begin callback whose finished() runs the finish task's body at once
\* instead of scheduling it: the command becomes inert and the tracker pops
\* and begins its next command inside the call.
begin_finishes_inline(s, c, sync) ==
  LET s1 == [s EXCEPT !.hist[c].begun = @ + 1]
      t == s1.impl[c].finisher
      q == s1.trackers[t].reverse_queue
  IN  IF ~sync THEN s1
      ELSE IF q = <<>>
      THEN [s1 EXCEPT !.calls = @ + 1, !.update_fn[c] = FALSE,
                      !.trackers[t].current_identifier = 0,
                      !.trackers[t].finished = FALSE,
                      !.trackers[t].fired = @ + 1]
      ELSE [s1 EXCEPT !.calls = @ + 1, !.update_fn[c] = FALSE,
                      !.trackers[t].reverse_queue = Front(q),
                      !.trackers[t].current_identifier = Last(q),
                      !.impl[Last(q)].finisher = t,
                      !.hist[Last(q)].begun = @ + 1]

\* The begin callback of a command (handle_nav_request or handle_dock, given
\* by the integrator), which may call finished() before it returns; that call
\* is counted like any other.
begin(s, c, sync) ==
  LET s1 == [s EXCEPT !.hist[c].begun = @ + 1,
                      !.hist[c].dock_name = s.impl[c].dock_name]
  IN  IF sync THEN finish([s1 EXCEPT !.calls = @ + 1], c, "begin") ELSE s1

\* TriggerOnce::trigger on the tracker's completion callback.
trigger(s, t) ==
  IF s.trackers[t].finished
  THEN [s EXCEPT !.trackers[t].finished = FALSE, !.trackers[t].fired = @ + 1]
  ELSE s

\* next() that takes a queue of one command left for an empty one.
next_off_by_one(s, t, sync) ==
  IF Len(s.trackers[t].reverse_queue) <= 1
  THEN trigger([s EXCEPT !.trackers[t].current_identifier = 0], t)
  ELSE LET c == Last(s.trackers[t].reverse_queue)
           s1 == [s EXCEPT !.trackers[t].reverse_queue = Front(@),
                           !.trackers[t].current_identifier = c,
                           !.impl[c].finisher = t]
       IN  begin(s1, c, sync)

\* ProgressTracker::next
next(s, t, sync) ==
  IF s.trackers[t].reverse_queue = <<>>
  THEN trigger([s EXCEPT !.trackers[t].current_identifier = 0], t)
  ELSE LET c == Last(s.trackers[t].reverse_queue)
           s1 == [s EXCEPT !.trackers[t].reverse_queue = Front(@),
                           !.trackers[t].current_identifier = c,
                           !.impl[c].finisher = t]
       IN  begin(s1, c, sync)

\* A finisher whose weak reference to the tracker never locks.
finisher_expired(s, c, t, sync) == s

\* A finisher that holds a strong reference to its tracker.
finisher_ignores_owner(s, c, t, sync) ==
  IF t # 0
  THEN next([s EXCEPT !.hist[c].advanced = @ + 1], t, sync)
  ELSE s

\* The finisher that next() gives a command: advance the tracker if it is
\* still alive, that is, still owned by current_progress.
finisher(s, c, t, sync) ==
  IF t # 0 /\ s.current_progress = t
  THEN next([s EXCEPT !.hist[c].advanced = @ + 1], t, sync)
  ELSE s

\* finish_task without the check that the activity has already finished.
finish_task_unguarded(s, c, t, sync) ==
  LET s1 == [s EXCEPT !.update_fn[c] = FALSE, !.hist[c].finish_tasks = @ + 1]
  IN  IF s1.data[c].schedule_override # NoOverride
      THEN request_replan(
             release_stubbornness(
               [s1 EXCEPT !.hist[c].auto_released = @ + 1,
                          !.hist[c].replanned = @ + 1], c))
      ELSE finisher(s1, c, t, sync)

\* finish_task that leaves update_fn set.
finish_task_keeps_live(s, c, t, sync) ==
  LET s1 == [s EXCEPT !.hist[c].finish_tasks = @ + 1]
  IN  IF s1.data[c].schedule_override # NoOverride
      THEN request_replan(
             release_stubbornness(
               [s1 EXCEPT !.hist[c].auto_released = @ + 1,
                          !.hist[c].replanned = @ + 1], c))
      ELSE finisher(s1, c, t, sync)

\* finish_task that calls the finisher even when a schedule override is
\* installed.
finish_task_advances_overridden(s, c, t, sync) ==
  IF ~s.update_fn[c]
  THEN [s EXCEPT !.hist[c].finish_tasks = @ + 1]
  ELSE LET s1 == [s EXCEPT !.update_fn[c] = FALSE, !.hist[c].finish_tasks = @ + 1]
       IN  IF s1.data[c].schedule_override # NoOverride
           THEN finisher(
                  request_replan(
                    release_stubbornness(
                      [s1 EXCEPT !.hist[c].auto_released = @ + 1,
                                 !.hist[c].replanned = @ + 1], c)), c, t, sync)
           ELSE finisher(s1, c, t, sync)

\* The task scheduled by finish().
finish_task(s, c, t, sync) ==
  IF ~s.update_fn[c]
  THEN [s EXCEPT !.hist[c].finish_tasks = @ + 1]
  ELSE LET s1 == [s EXCEPT !.update_fn[c] = FALSE, !.hist[c].finish_tasks = @ + 1]
       IN  IF s1.data[c].schedule_override # NoOverride
           THEN request_replan(
                  release_stubbornness(
                    [s1 EXCEPT !.hist[c].auto_released = @ + 1,
                               !.hist[c].replanned = @ + 1], c))
           ELSE finisher(s1, c, t, sync)

\* ProgressTracker::make
make_tracker(s, queue, kind) ==
  [s EXCEPT !.trackers = Append(@,
     [reverse_queue |-> Reverse(queue), current_identifier |-> 0,
      finished |-> TRUE, fired |-> 0, queue |-> queue, kind |-> kind]),
            !.current_progress = Len(s.trackers) + 1]

\* make that hands the new command's update function to every earlier
\* identifier as well.
make_command_rearms(s, d, kind) ==
  [s EXCEPT !.data = Append(@, d),
            !.update_fn = [i \in 1..(Len(@) + 1) |-> TRUE],
            !.impl = Append(@, [begin |-> kind, finisher |-> 0, dock_name |-> ""]),
            !.hist = Append(@, NoHist)]

\* CommandExecution::Implementation::make
make_command(s, d, kind) ==
  [s EXCEPT !.data = Append(@, d),
            !.update_fn = Append(@, TRUE),
            !.impl = Append(@, [begin |-> kind, finisher |-> 0, dock_name |-> ""]),
            !.hist = Append(@, NoHist)]

\* The stop-request callback given by the integrator, invoked with an
\* identifier; whether the identifier is still live at that moment is noted.
handle_stop(s, activity_identifier) ==
  [s EXCEPT !.hist[activity_identifier].stopped = @ + 1,
            !.hist[activity_identifier].stopped_live =
               @ \/ s.update_fn[activity_identifier]]

\* stop() that drops the tracker but leaves the update function in place.
stop_keeps_live(s) ==
  IF s.current_progress = 0 THEN s
  ELSE LET activity_identifier == s.trackers[s.current_progress].current_identifier
       IN  IF activity_identifier = 0 THEN s
           ELSE handle_stop([s EXCEPT !.current_progress = 0], activity_identifier)

\* stop() that invokes the stop-request callback before anything else.
stop_calls_back_first(s) ==
  IF s.current_progress = 0 THEN s
  ELSE LET activity_identifier == s.trackers[s.current_progress].current_identifier
       IN  IF activity_identifier = 0 THEN s
           ELSE LET s1 == handle_stop(s, activity_identifier)
                IN  [s1 EXCEPT !.update_fn[activity_identifier] = FALSE,
                               !.current_progress = 0]

\* EasyCommandHandle::stop
stop(s) ==
  IF s.current_progress = 0 THEN s
  ELSE LET activity_identifier == s.trackers[s.current_progress].current_identifier
       IN  IF activity_identifier = 0 THEN s
           ELSE handle_stop([s EXCEPT !.update_fn[activity_identifier] = FALSE,
                                      !.current_progress = 0],
                            activity_identifier)

\* okay() that looks at the identifier only.
okay_ignores_update_fn(s, c) == c # 0

\* CommandExecution::okay: the command has an identifier (c # 0) and the
\* identifier's update function is non-null.
okay(s, c) ==
  IF c = 0 THEN FALSE
  ELSE IF ~s.update_fn[c] THEN FALSE
  ELSE TRUE

\* ------------------------------------------------- location reconciliation
Start(wp, lane) == [waypoint |-> wp, lane |-> lane]
WaypointIds == [i \in 1..num_waypoints |-> i - 1]

\* (p - p0).dot(p1 - p0) and |p1 - p0|^2 of a segment: proj = Along / length,
\* so proj < 0 or length < proj is Along < 0 or Len2 < Along.
Along(p, p0, p1) == Dot(Sub(p, p0), Sub(p1, p0))
Len2(p0, p1) == Norm2(Sub(p1, p0))
projects_within(p, p0, p1) == ~(Along(p, p0, p1) < 0 \/ Len2(p0, p1) < Along(p, p0, p1))

\* dist_to_lane^2 * |p1 - p0|^2 for the segment p0 -> p1.
lateral2(p, p0, p1) ==
  Norm2(Sub(p, p0)) * Len2(p0, p1) - Along(p, p0, p1) * Along(p, p0, p1)

lane_p0(l) == get_location(get_lane(l).entry)
lane_p1(l) == get_location(get_lane(l).exit)

\* dist_to_lane(a) < dist_to_lane(b) for segments a and b.
closer(p, a0, a1, b0, b1) ==
  lateral2(p, a0, a1) * Len2(b0, b1) < lateral2(p, b0, b1) * Len2(a0, a1)

within_lane_distance(p, l) ==
  /\ projects_within(p, lane_p0(l), lane_p1(l))
  /\ lateral2(p, lane_p0(l), lane_p1(l))
       <= max_merge_lane_distance * max_merge_lane_distance
            * Len2(lane_p0(l), lane_p1(l))

within_waypoint_distance(p, wp) ==
  Norm2(Sub(p, get_location(wp)))
    <= max_merge_waypoint_distance * max_merge_waypoint_distance

\* rmf_traffic::agv::compute_plan_starts: the whole-graph search.
compute_plan_starts(p) ==
  LET wps == SelectSeq(WaypointIds, LAMBDA w : within_waypoint_distance(p, w))
      ls == SelectSeq(LaneIds, LAMBDA l : within_lane_distance(p, l))
  IN  IF wps # <<>>
      THEN [i \in 1..Len(wps) |-> Start(wps[i], NoLane)]
      ELSE [i \in 1..Len(ls) |-> Start(get_lane(ls[i]).exit, ls[i])]

\* The hinted waypoint chosen by the first loop of update_location: the first
\* of those at minimal distance within the threshold, or NoIndex.
on_waypoint(waypoints, p) ==
  LET ok == {i \in 1..Len(waypoints) : within_waypoint_distance(p, waypoints[i])}
      d(i) == Norm2(Sub(p, get_location(waypoints[i])))
  IN  IF ok = {} THEN NoIndex
      ELSE waypoints[CHOOSE i \in ok :
                       \A j \in ok : d(i) < d(j) \/ (d(i) = d(j) /\ i <= j)]

\* on_lane that takes the first hinted lane in range instead of the closest.
on_lane_first_in_range(lanes, closed, p) ==
  LET ok == {i \in 1..Len(lanes) :
               lanes[i] \notin closed /\ within_lane_distance(p, lanes[i])}
  IN  IF ok = {} THEN NoLane
      ELSE lanes[CHOOSE i \in ok : \A j \in ok : i <= j]

\* The hinted lane chosen by the second loop of update_location.
on_lane(lanes, closed, p) ==
  LET ok == {i \in 1..Len(lanes) :
               lanes[i] \notin closed /\ within_lane_distance(p, lanes[i])}
      better(i, j) == closer(p, lane_p0(lanes[i]), lane_p1(lanes[i]),
                                lane_p0(lanes[j]), lane_p1(lanes[j]))
  IN  IF ok = {} THEN NoLane
      ELSE lanes[CHOOSE i \in ok :
                   \A j \in ok : better(i, j) \/ (~better(j, i) /\ i <= j)]

\* waypoint_starts that does not skip closed lanes.
waypoint_starts_ignores_closures(wp, closed) ==
  <<Start(wp, NoLane)>> \o
  [i \in 1..Len(lanes_from(wp)) |->
     Start(get_lane(lanes_from(wp)[i]).exit, lanes_from(wp)[i])]

\* The starts emitted for a matched waypoint: the waypoint, then one start
\* per lane leaving it that is not closed.
waypoint_starts(wp, closed) ==
  LET open == SelectSeq(lanes_from(wp), LAMBDA l : l \notin closed)
  IN  <<Start(wp, NoLane)>> \o
      [i \in 1..Len(open) |-> Start(get_lane(open[i]).exit, open[i])]

\* The starts emitted for a matched lane: its exit, and its entry through the
\* reverse lane if the graph has one.
lane_starts(lane_id) ==
  LET wp0 == get_lane(lane_id).entry
      wp1 == get_lane(lane_id).exit
      reverse_lane == lane_from(wp1, wp0)
  IN  <<Start(wp1, lane_id)>> \o
      (IF reverse_lane # NoLane THEN <<Start(wp0, reverse_lane)>> ELSE <<>>)

\* The delay threshold of overridden_update and of dock's estimator, in s.
delay_thresh == 1

\* Itinerary::cumulative_delay(plan_id, now - t_expected, threshold)
cumulative_delay(s, plan_id, t_expected, threshold) ==
  [s EXCEPT !.itinerary.delay =
     [plan_id |-> plan_id, t_expected |-> t_expected, threshold |-> threshold]]

\* The arrival_estimator of a command: follow_new_path passes the estimate to
\* next_arrival_estimator_, dock turns it into a delay of the plan that was
\* current when dock() was called, and a dock without a lane ignores it.
arrival_estimator(s, c) ==
  LET e == s.data[c].arrival_estimator
      s1 == [s EXCEPT !.hist[c].estimated = TRUE,
                      !.hist[c].estimates = @ + 1,
                      !.hist[c].estimate_location = s.location]
  IN  IF e.kind = "dock" THEN cumulative_delay(s1, e.plan_id, DockEstimate, delay_thresh) ELSE s1

\* overridden_update that takes the first segment the position projects into
\* instead of the closest one.
overridden_update_first_segment(s, c, p) ==
  LET route == s.data[c].schedule_override.route
      plan_id == s.data[c].schedule_override.plan_id
      segs == {i \in 1..(Len(route) - 1) :
                 projects_within(p, route[i].position, route[i + 1].position)}
      first == CHOOSE i \in segs : \A j \in segs : i <= j
      t_segment ==
        LET wp0 == route[first]
            wp1 == route[first + 1]
        IN  wp0.time + (Along(p, wp0.position, wp1.position) * (wp1.time - wp0.time))
                         \div Len2(wp0.position, wp1.position)
      d(i) == Norm2(Sub(p, route[i].position))
      closest_time ==
        route[CHOOSE i \in 1..Len(route) :
                \A j \in 1..Len(route) : d(i) < d(j) \/ (d(i) = d(j) /\ i <= j)].time
      s1 == IF segs # {} THEN cumulative_delay(s, plan_id, t_segment, delay_thresh)
            ELSE IF route # <<>>
                 THEN cumulative_delay(s, plan_id, closest_time, delay_thresh)
            ELSE s
  IN  IF ~s1.planner THEN s1
      ELSE [s1 EXCEPT !.location = compute_plan_starts(p)]

\* Data::overridden_update
overridden_update(s, c, p) ==
  LET route == s.data[c].schedule_override.route
      plan_id == s.data[c].schedule_override.plan_id
      segs == {i \in 1..(Len(route) - 1) :
                 projects_within(p, route[i].position, route[i + 1].position)}
      better(i, j) == closer(p, route[i].position, route[i + 1].position,
                                route[j].position, route[j + 1].position)
      closest_lane == CHOOSE i \in segs :
                        \A j \in segs : better(i, j) \/ (~better(j, i) /\ i <= j)
      t_segment ==
        LET wp0 == route[closest_lane]
            wp1 == route[closest_lane + 1]
        IN  wp0.time + (Along(p, wp0.position, wp1.position) * (wp1.time - wp0.time))
                         \div Len2(wp0.position, wp1.position)
      d(i) == Norm2(Sub(p, route[i].position))
      closest_time ==
        route[CHOOSE i \in 1..Len(route) :
                \A j \in 1..Len(route) : d(i) < d(j) \/ (d(i) = d(j) /\ i <= j)].time
      s1 == IF segs # {} THEN cumulative_delay(s, plan_id, t_segment, delay_thresh)
            ELSE IF route # <<>> THEN cumulative_delay(s, plan_id, closest_time, delay_thresh)
            ELSE s
  IN  IF ~s1.planner THEN s1
      ELSE [s1 EXCEPT !.location = compute_plan_starts(p)]

\* update_location that skips hinted waypoints outside the graph instead of
\* dropping the update.
update_location_skips_bad_waypoints(s, c, p) ==
  LET d == s.data[c]
      good == SelectSeq(d.waypoints, LAMBDA w : w < num_waypoints)
      wp == on_waypoint(good, p)
      lane_id == on_lane(d.lanes, s.closed_lanes, p)
      starts == IF wp # NoIndex THEN waypoint_starts(wp, s.closed_lanes)
                ELSE IF lane_id # NoLane THEN lane_starts(lane_id)
                ELSE compute_plan_starts(p)
      s1 == [s EXCEPT !.location = starts]
  IN  IF d.schedule_override # NoOverride THEN overridden_update(s, c, p)
      ELSE IF ~s.planner THEN s
      ELSE IF wp = NoIndex /\ \E i \in 1..Len(d.lanes) : d.lanes[i] >= num_lanes THEN s
      ELSE IF d.waypoints # <<>> THEN arrival_estimator(s1, c)
      ELSE s1

\* update_location that invokes the arrival estimator before it writes the
\* location.
update_location_estimates_first(s, c, p) ==
  LET d == s.data[c]
      wp == on_waypoint(d.waypoints, p)
      lane_id == on_lane(d.lanes, s.closed_lanes, p)
      starts == IF wp # NoIndex THEN waypoint_starts(wp, s.closed_lanes)
                ELSE IF lane_id # NoLane THEN lane_starts(lane_id)
                ELSE compute_plan_starts(p)
  IN  IF d.schedule_override # NoOverride THEN overridden_update(s, c, p)
      ELSE IF ~s.planner THEN s
      ELSE IF \E i \in 1..Len(d.waypoints) : d.waypoints[i] >= num_waypoints THEN s
      ELSE IF wp = NoIndex /\ \E i \in 1..Len(d.lanes) : d.lanes[i] >= num_lanes THEN s
      ELSE IF d.waypoints # <<>>
           THEN [arrival_estimator(s, c) EXCEPT !.location = starts]
      ELSE [s EXCEPT !.location = starts]

\* Data::update_location
update_location(s, c, p) ==
  LET d == s.data[c]
      wp == on_waypoint(d.waypoints, p)
      lane_id == on_lane(d.lanes, s.closed_lanes, p)
      starts == IF wp # NoIndex THEN waypoint_starts(wp, s.closed_lanes)
                ELSE IF lane_id # NoLane THEN lane_starts(lane_id)
                ELSE compute_plan_starts(p)
      s1 == [s EXCEPT !.location = starts]
  IN  IF d.schedule_override # NoOverride THEN overridden_update(s, c, p)
      ELSE IF ~s.planner THEN s
      ELSE IF \E i \in 1..Len(d.waypoints) : d.waypoints[i] >= num_waypoints THEN s
      ELSE IF wp = NoIndex /\ \E i \in 1..Len(d.lanes) : d.lanes[i] >= num_lanes THEN s
      ELSE IF d.waypoints # <<>> THEN arrival_estimator(s1, c)
      ELSE s1

\* update_task that runs the location update of an identifier whether or not
\* its update function has been cleared.
update_task_ignores_inert(s, activity, p) ==
  IF activity # 0 THEN update_location(s, activity, p) ELSE s

\* The task scheduled by EasyRobotUpdateHandle::update_position. Without an
\* activity the starts are computed and dropped; with one, update_fn is called
\* whether or not it is empty.
update_task(s, activity, p) ==
  IF activity # 0
  THEN IF s.update_fn[activity]
       THEN update_location(s, activity, p)
       ELSE [s EXCEPT !.fault = TRUE]
  ELSE s

\* update_position that runs the update in the caller's context instead of
\* scheduling it.
update_position_inline(s, activity, p) == update_task(s, activity, p)

\* EasyRobotUpdateHandle::update_position
update_position(s, activity, p) ==
  [s EXCEPT !.worker = Append(@, Task("update", activity, 0, 0, p))]

\* ------------------------------------------------------ override_schedule
\* The length of an axis-aligned or otherwise integral segment.
Distance(a, b) == CHOOSE n \in 0..100 : n * n = Norm2(Sub(a, b))

RECURSIVE Interpolate_positions(_)
\* rmf_traffic::agv::Interpolate::positions at unit speed from time 0: one
\* trajectory sample per path position.
Interpolate_positions(path) ==
  IF path = <<>> THEN <<>>
  ELSE IF Len(path) = 1 THEN <<[position |-> path[1], time |-> 0]>>
  ELSE LET before == Interpolate_positions(Front(path))
       IN  Append(before,
                  [position |-> Last(path),
                   time |-> Last(before).time
                              + Distance(Last(before).position, Last(path))])

\* CommandExecution::Implementation::override_schedule: makes the
\* StubbornOverride, schedules the override task and returns the handle.
override_schedule(s, c, path) ==
  LET o == Len(s.stubborn) + 1
  IN  [s EXCEPT !.stubborn = Append(@, [stubbornness |-> FALSE, handle |-> TRUE,
                                        task |-> TRUE, cmd |-> c]),
                !.worker = Append(@, Task("override", c, 0, o, path))]

\* override_task without the check that the activity has already finished.
override_task_unguarded(s, c, o, path) ==
  LET plan_id == s.itinerary.next_plan_id
      s1 == release_stubbornness(s, c)
      installed ==
        [s1 EXCEPT !.itinerary.next_plan_id = @ + 1,
                   !.itinerary.plan_id = plan_id,
                   !.data[c].schedule_override =
                      [plan_id |-> plan_id, stubborn |-> o,
                       route |-> Interpolate_positions(path)],
                   !.stubborn[o].stubbornness = TRUE]
      after == IF ~s.planner THEN s ELSE installed
  IN  destroy_unowned([after EXCEPT !.stubborn[o].task = FALSE])

\* override_task that releases the previous override before it looks for the
\* planner.
override_task_releases_first(s, c, o, path) ==
  LET plan_id == s.itinerary.next_plan_id
      s1 == release_stubbornness(s, c)
      installed ==
        [s1 EXCEPT !.itinerary.next_plan_id = @ + 1,
                   !.itinerary.plan_id = plan_id,
                   !.data[c].schedule_override =
                      [plan_id |-> plan_id, stubborn |-> o,
                       route |-> Interpolate_positions(path)],
                   !.stubborn[o].stubbornness = TRUE]
      after == IF ~s.update_fn[c] THEN s
               ELSE IF ~s.planner THEN s1
               ELSE installed
  IN  destroy_unowned([after EXCEPT !.stubborn[o].task = FALSE])

\* override_task whose StubbornOverride outlives its owners.
override_task_keeps_token(s, c, o, path) ==
  LET plan_id == s.itinerary.next_plan_id
      s1 == release_stubbornness(s, c)
      installed ==
        [s1 EXCEPT !.itinerary.next_plan_id = @ + 1,
                   !.itinerary.plan_id = plan_id,
                   !.data[c].schedule_override =
                      [plan_id |-> plan_id, stubborn |-> o,
                       route |-> Interpolate_positions(path)],
                   !.stubborn[o].stubbornness = TRUE]
      after == IF ~s.update_fn[c] THEN s
               ELSE IF ~s.planner THEN s
               ELSE installed
  IN  [after EXCEPT !.stubborn[o].task = FALSE]

\* override_task that installs the new override on top of the previous one.
override_task_stacks(s, c, o, path) ==
  LET plan_id == s.itinerary.next_plan_id
      installed ==
        [s EXCEPT !.itinerary.next_plan_id = @ + 1,
                  !.itinerary.plan_id = plan_id,
                  !.data[c].schedule_override =
                     [plan_id |-> plan_id, stubborn |-> o,
                      route |-> Interpolate_positions(path)],
                  !.stubborn[o].stubbornness = TRUE]
      after == IF ~s.update_fn[c] THEN s
               ELSE IF ~s.planner THEN s
               ELSE installed
  IN  destroy_unowned([after EXCEPT !.stubborn[o].task = FALSE])

\* The task scheduled by override_schedule; its captured StubbornOverride
\* reference is dropped when the task is gone.
override_task(s, c, o, path) ==
  LET plan_id == s.itinerary.next_plan_id
      s1 == release_stubbornness(s, c)
      installed ==
        [s1 EXCEPT !.itinerary.next_plan_id = @ + 1,
                   !.itinerary.plan_id = plan_id,
                   !.data[c].schedule_override =
                      [plan_id |-> plan_id, stubborn |-> o,
                       route |-> Interpolate_positions(path)],
                   !.stubborn[o].stubbornness = TRUE]
      after == IF ~s.update_fn[c] THEN s
               ELSE IF ~s.planner THEN s
               ELSE installed
  IN  destroy_unowned([after EXCEPT !.stubborn[o].task = FALSE])

\* -------------------------------------------------------- follow_new_path
PlanWaypoint(graph_index, approach_lanes) ==
  [graph_index |-> graph_index, approach_lanes |-> approach_lanes]

\* The index i0 left by the connection search (lines 828-862), or NoIndex when
\* found_connection stays false: the last assignment made in loop order wins.
RECURSIVE connection(_, _, _)
connection(waypoints, current_location, n) ==
  IF n = 0 THEN NoIndex
  ELSE LET wp == waypoints[n]
           i == n - 1
           by_lane == i > 0 /\ \E k \in 1..Len(wp.approach_lanes) :
                        \E l \in 1..Len(current_location) :
                          /\ current_location[l].lane # NoLane
                          /\ wp.approach_lanes[k] = current_location[l].lane
           by_waypoint == wp.graph_index # NoIndex /\
                          \E l \in 1..Len(current_location) :
                            wp.graph_index = current_location[l].waypoint
       IN  IF by_lane THEN i - 1
           ELSE IF by_waypoint THEN i
           ELSE connection(waypoints, current_location, n - 1)

\* cmd_wps of one command: wp0's graph index, then the entry and exit of each
\* approach lane of wp1 that is not in the list yet.
RECURSIVE add_lane_waypoints(_, _)
add_lane_waypoints(cmd_wps, lanes) ==
  IF lanes = <<>> THEN cmd_wps
  ELSE LET entry_wp == get_lane(lanes[1]).entry
           exit_wp == get_lane(lanes[1]).exit
           w1 == IF entry_wp \in Range(cmd_wps) THEN cmd_wps
                 ELSE Append(cmd_wps, entry_wp)
           w2 == IF exit_wp \in Range(w1) THEN w1 ELSE Append(w1, exit_wp)
       IN  add_lane_waypoints(w2, Tail(lanes))

\* std::size_t arithmetic. SizeModulus stands for 2^64, which is beyond the
\* integers of the model checker; paths are far shorter than either.
SizeModulus == 65536
size_t(n) == n % SizeModulus

\* What a read of waypoints[i] outside the vector can produce: a crash, or an
\* object without graph index, or one with some graph index.
OutOfBounds ==
  {[crash |-> TRUE, value |-> PlanWaypoint(NoIndex, <<>>)],
   [crash |-> FALSE, value |-> PlanWaypoint(NoIndex, <<>>)],
   [crash |-> FALSE, value |-> PlanWaypoint(3, <<>>)]}

\* waypoints[i] for a 0-based size_t index.
at(waypoints, i, oob) ==
  IF i < Len(waypoints) THEN waypoints[i + 1] ELSE oob.value

\* The command loop without the merge of a waypoint that only rotates.
RECURSIVE decompose_without_merge(_, _, _, _)
decompose_without_merge(waypoints, i0, i1, oob) ==
  IF ~(i1 < Len(waypoints)) THEN <<>>
  ELSE LET wp0 == at(waypoints, i0, oob)
           wp1 == at(waypoints, i1, oob)
           cmd ==
             [waypoints |-> add_lane_waypoints(
                              IF wp0.graph_index # NoIndex
                              THEN <<wp0.graph_index>> ELSE <<>>,
                              wp1.approach_lanes),
              lanes |-> wp1.approach_lanes,
              final_orientation |-> TRUE,
              schedule_override |-> NoOverride,
              arrival_estimator |->
                [kind |-> "path", target_index |-> i1, plan_id |-> 0]]
       IN  <<[data |-> cmd, read |-> {i0, i1}]>> \o
           decompose_without_merge(waypoints, size_t(i0 + 1), size_t(i1 + 1), oob)

\* The commands queued by the loop at lines 878-975, for 0-based i0 and i1,
\* each with the path indices read to build it.
RECURSIVE decompose(_, _, _, _)
decompose(waypoints, i0, i1, oob) ==
  IF ~(i1 < Len(waypoints)) THEN <<>>
  ELSE LET wp0 == at(waypoints, i0, oob)
           wp1 == at(waypoints, i1, oob)
           i2 == size_t(i1 + 1)
           skip_next ==
             /\ skip_rotation_commands
             /\ i2 < Len(waypoints)
             /\ wp1.graph_index # NoIndex
             /\ at(waypoints, i2, oob).graph_index # NoIndex
             /\ wp1.graph_index = at(waypoints, i2, oob).graph_index
           target_index == IF skip_next THEN i2 ELSE i1
           cmd ==
             [waypoints |-> add_lane_waypoints(
                              IF wp0.graph_index # NoIndex
                              THEN <<wp0.graph_index>> ELSE <<>>,
                              wp1.approach_lanes),
              lanes |-> wp1.approach_lanes,
              final_orientation |-> TRUE,
              schedule_override |-> NoOverride,
              arrival_estimator |->
                [kind |-> "path", target_index |-> target_index, plan_id |-> 0]]
           read == {i0, i1} \cup
                   (IF skip_rotation_commands /\ i2 < Len(waypoints) THEN {i2} ELSE {})
           step == IF skip_next THEN 2 ELSE 1
       IN  <<[data |-> cmd, read |-> read]>> \o
           decompose(waypoints, size_t(i0 + step), size_t(i1 + step), oob)

RECURSIVE make_commands(_, _, _)
make_commands(s, queue, kind) ==
  IF queue = <<>> THEN s
  ELSE make_commands(make_command(s, queue[1], kind), Tail(queue), kind)

\* A start index that is the first index of the path wherever the robot is.
path_start_from_front(s, waypoints) == 0

\* i0 after lines 872-876: clamped to size - 2 in size_t arithmetic.
path_start(s, waypoints) ==
  LET found == connection(waypoints, s.location, Len(waypoints))
  IN  IF found >= size_t(Len(waypoints) - 1)
      THEN size_t(Len(waypoints) - 2)
      ELSE found

\* The queue follow_new_path builds for a path it accepts.
path_queue(s, waypoints, oob) ==
  LET i0 == path_start(s, waypoints)
  IN  decompose(waypoints, i0, size_t(i0 + 1), oob)

\* follow_new_path that asks for a new plan whenever it leaves without a queue.
follow_new_path_always_replans(s, waypoints, estimator_null, callback_null, sync, oob) ==
  IF waypoints = <<>> \/ estimator_null \/ callback_null THEN request_replan(s)
  ELSE IF ~s.planner THEN request_replan(s)
  ELSE IF \A i \in 1..Len(waypoints) : waypoints[i].graph_index = NoIndex THEN s
  ELSE IF connection(waypoints, s.location, Len(waypoints)) = NoIndex
       THEN request_replan(s)
  ELSE LET queue == path_queue(s, waypoints, oob)
           n == Len(s.data)
           s1 == make_commands(s, [k \in 1..Len(queue) |-> queue[k].data], "nav")
           s2 == [s1 EXCEPT !.hist =
                    s.hist \o [k \in 1..Len(queue) |->
                                [NoHist EXCEPT !.path = waypoints,
                                               !.read = queue[k].read]]]
           s3 == make_tracker(s2, [i \in 1..Len(queue) |-> n + i], "path")
       IN  next(s3, s3.current_progress, sync)

\* EasyCommandHandle::follow_new_path
follow_new_path(s, waypoints, estimator_null, callback_null, sync, oob) ==
  IF waypoints = <<>> \/ estimator_null \/ callback_null THEN s
  ELSE IF ~s.planner THEN s
  ELSE IF \A i \in 1..Len(waypoints) : waypoints[i].graph_index = NoIndex THEN s
  ELSE IF connection(waypoints, s.location, Len(waypoints)) = NoIndex
       THEN request_replan(s)
  ELSE IF ~(path_start(s, waypoints) < Len(waypoints)) /\ oob.crash
       THEN [s EXCEPT !.fault = TRUE]
  ELSE LET queue == path_queue(s, waypoints, oob)
           n == Len(s.data)
           s1 == make_commands(s, [k \in 1..Len(queue) |-> queue[k].data], "nav")
           s2 == [s1 EXCEPT !.hist =
                    s.hist \o [k \in 1..Len(queue) |->
                                [NoHist EXCEPT !.path = waypoints,
                                               !.read = queue[k].read]]]
           s3 == make_tracker(s2, [i \in 1..Len(queue) |-> n + i], "path")
       IN  next(s3, s3.current_progress, sync)

\* ------------------------------------------------------------------ dock
\* The first lane whose entry or exit event is a Dock of that name, or NoLane.
found_lane(dock_name) ==
  LET ls == SelectSeq(LaneIds, LAMBDA l : get_lane(l).dock = dock_name)
  IN  IF ls = <<>> THEN NoLane ELSE ls[1]

\* dock that issues nothing when no lane carries a dock of that name.
dock_needs_lane(s, dock_name, sync) ==
  LET lane == found_lane(dock_name)
      d == [waypoints |-> <<get_lane(lane).entry, get_lane(lane).exit>>,
            lanes |-> <<lane>>, final_orientation |-> FALSE,
            schedule_override |-> NoOverride,
            arrival_estimator |->
              [kind |-> "dock", target_index |-> NoIndex,
               plan_id |-> s.itinerary.plan_id]]
      s1 == [make_command(s, d, "dock") EXCEPT
               !.impl[Len(s.impl) + 1].dock_name = dock_name]
      s2 == make_tracker(s1, <<Len(s1.data)>>, "dock")
  IN  IF ~s.planner \/ lane = NoLane THEN s
      ELSE next(s2, s2.current_progress, sync)

\* EasyCommandHandle::dock
dock(s, dock_name, sync) ==
  LET lane == found_lane(dock_name)
      d == IF lane = NoLane
           THEN [waypoints |-> <<>>, lanes |-> <<>>, final_orientation |-> FALSE,
                 schedule_override |-> NoOverride,
                 arrival_estimator |->
                   [kind |-> "none", target_index |-> NoIndex, plan_id |-> 0]]
           ELSE [waypoints |-> <<get_lane(lane).entry, get_lane(lane).exit>>,
                 lanes |-> <<lane>>, final_orientation |-> FALSE,
                 schedule_override |-> NoOverride,
                 arrival_estimator |->
                   [kind |-> "dock", target_index |-> NoIndex,
                    plan_id |-> s.itinerary.plan_id]]
      s1 == [make_command(s, d, "dock") EXCEPT
               !.impl[Len(s.impl) + 1].dock_name = dock_name]
      s2 == make_tracker(s1, <<Len(s1.data)>>, "dock")
  IN  IF ~s.planner THEN s
      ELSE next(s2, s2.current_progress, sync)

\* ------------------------------------------------------- GoToPlace::Active
\* _find_plan: issue an asynchronous path-finding request; _find_path_service
\* is the outstanding request (0 is nullptr), requests every request issued.
_find_plan(g) ==
  [g EXCEPT !.requests = Append(@, [result |-> "pending", delivered |-> FALSE]),
            !._find_path_service = Len(g.requests) + 1]

\* Active::make: the event is active and immediately requests a plan.
make_active ==
  _find_plan([status |-> "active", _find_path_service |-> 0, requests |-> <<>>,
              _plan |-> 0, _sequence |-> FALSE, commands |-> 0, discarded |-> 0])

\* _execute_plan: turn the plan of request id into a command sequence.
_execute_plan(g, id) ==
  [g EXCEPT !._plan = id, !._sequence = TRUE, !.commands = @ + 1]

\* A result handler that executes or retries whatever the event's state.
on_result_unchecked(g, id) ==
  LET g1 == [g EXCEPT !.requests[id].delivered = TRUE]
  IN  IF g.requests[id].result = "plan" THEN _execute_plan(g1, id)
      ELSE _find_plan(g1)

\* A result handler that gives up after a failure.
on_result_gives_up(g, id) ==
  LET g1 == [g EXCEPT !.requests[id].delivered = TRUE]
  IN  IF g.status # "active" \/ g._find_path_service # id
      THEN [g1 EXCEPT !.discarded = @ + 1]
      ELSE IF g.requests[id].result = "plan" THEN _execute_plan(g1, id)
      ELSE [g1 EXCEPT !._find_path_service = 0]

\* The handler of a path-finding result, polled by _find_path_timer: a result
\* of a request that is no longer the outstanding one, or that arrives after
\* cancel or kill, is discarded; a plan is executed; a failure is retried.
on_result(g, id) ==
  LET g1 == [g EXCEPT !.requests[id].delivered = TRUE]
  IN  IF g.status # "active" \/ g._find_path_service # id
      THEN [g1 EXCEPT !.discarded = @ + 1]
      ELSE IF g.requests[id].result = "plan" THEN _execute_plan(g1, id)
      ELSE _find_plan(g1)

\* Active::cancel and Active::kill: tear down the in-flight planning request
\* and the command queue.
cancel(g) ==
  IF g.status # "active" THEN g
  ELSE [g EXCEPT !.status = "cancelled", !._find_path_service = 0,
                 !._sequence = FALSE]
kill(g) ==
  [g EXCEPT !.status = "killed", !._find_path_service = 0, !._sequence = FALSE]

\* ------------------------------------------------------------- add_robot
\* The fleet before any robot is added. last records the latest call of
\* add_robot and whether it returned an update handle (bookkeeping).
NoCall == [name |-> "", nav_null |-> FALSE, stop_null |-> FALSE,
           dock_null |-> FALSE, returned |-> FALSE]
NoRobots == [cmd_handles |-> <<>>, robots |-> {}, last |-> NoCall]

\* The command handle stored under a name in cmd_handles: "absent" without an
\* entry, "null" for the entry add_robot inserts first, "handle" once set.
cmd_handle(f, name) ==
  LET es == {i \in 1..Len(f.cmd_handles) : f.cmd_handles[i].name = name}
  IN  IF es = {} THEN "absent" ELSE f.cmd_handles[CHOOSE i \in es : TRUE].handle

\* add_robot that does not test the dock callback.
add_robot_ignores_dock(f, name, p, nav_null, stop_null, dock_null) ==
  LET call(r) == [name |-> name, nav_null |-> nav_null, stop_null |-> stop_null,
                  dock_null |-> dock_null, returned |-> r]
      inserted == [f EXCEPT !.cmd_handles = Append(@, [name |-> name, handle |-> "null"])]
      set == [inserted EXCEPT !.cmd_handles[Len(inserted.cmd_handles)].handle = "handle"]
  IN  IF cmd_handle(f, name) # "absent" THEN [f EXCEPT !.last = call(FALSE)]
      ELSE IF compute_plan_starts(p) = <<>> THEN [inserted EXCEPT !.last = call(FALSE)]
      ELSE IF nav_null \/ stop_null THEN [inserted EXCEPT !.last = call(FALSE)]
      ELSE [set EXCEPT !.robots = @ \cup {name}, !.last = call(TRUE)]

\* EasyFullControl::add_robot
add_robot(f, name, p, nav_null, stop_null, dock_null) ==
  LET call(r) == [name |-> name, nav_null |-> nav_null, stop_null |-> stop_null,
                  dock_null |-> dock_null, returned |-> r]
      inserted == [f EXCEPT !.cmd_handles = Append(@, [name |-> name, handle |-> "null"])]
      set == [inserted EXCEPT !.cmd_handles[Len(inserted.cmd_handles)].handle = "handle"]
  IN  IF cmd_handle(f, name) # "absent" THEN [f EXCEPT !.last = call(FALSE)]
      ELSE IF compute_plan_starts(p) = <<>> THEN [inserted EXCEPT !.last = call(FALSE)]
      ELSE IF nav_null \/ stop_null \/ dock_null
           THEN [inserted EXCEPT !.last = call(FALSE)]
      ELSE [set EXCEPT !.robots = @ \cup {name}, !.last = call(TRUE)]

\* ---------------------------------------------------------------- inputs
\* Plans handed to follow_new_path: W0 -> W1, W0 -> W1 -> W2, and the latter
\* with a turn on the spot at W1; and the empty plan.
PathA == <<PlanWaypoint(0, <<>>), PlanWaypoint(1, <<0>>)>>
PathB == <<PlanWaypoint(0, <<>>), PlanWaypoint(1, <<0>>), PlanWaypoint(2, <<2>>)>>
PathC == <<PlanWaypoint(0, <<>>), PlanWaypoint(1, <<0>>), PlanWaypoint(1, <<>>),
           PlanWaypoint(2, <<2>>)>>
Paths == {<<>>, PathA, PathB}

DockNames == {"dock_a", "dock_x"}

\* Position sample: beside lane 0, within the lane merge distance.
Positions == {<<10, 5>>}

\* Paths given to override_schedule.
OverridePaths == {<< <<0, 0>>, <<20, 0>> >>}

\* ------------------------------------------------------------------ Init
Init ==
  /\ planner = TRUE
  /\ closed_lanes = {}
  /\ location = compute_plan_starts(<<0, 0>>)
  /\ itinerary = [next_plan_id |-> 1, plan_id |-> 0, delay |-> NoDelay]
  /\ data = <<>>
  /\ update_fn = <<>>
  /\ impl = <<>>
  /\ trackers = <<>>
  /\ current_progress = 0
  /\ worker = <<>>
  /\ stubborn = <<>>
  /\ replan_requested = FALSE
  /\ hist = <<>>
  /\ fault = FALSE
  /\ calls = 0
  /\ fleet = add_robot(NoRobots, "robot", <<0, 0>>, FALSE, FALSE, FALSE)
  /\ go_to_place = make_active

\* --------------------------------------------------------------- actions
\* The commands the integrator has been handed by a begin callback.
Begun == {c \in Cmds : hist[c].begun > 0}

\* A call from outside the worker that changes the state: counted, and made
\* only while no call of an empty function has ended the worker's run. (A call
\* that changes nothing is a stuttering step.)
Call(s) ==
  /\ ~fault
  /\ s # Cur
  /\ s.calls + 1 <= MaxCalls
  /\ Commit([s EXCEPT !.calls = @ + 1])

\* A task run by the worker.
Run(s) ==
  /\ ~fault
  /\ s.calls <= MaxCalls
  /\ Commit(s)

\* The fleet adapter calls follow_new_path.
FollowNewPath ==
  \E waypoints \in Paths, estimator_null, callback_null, sync \in BOOLEAN,
     oob \in OutOfBounds :
    Call(follow_new_path(Cur, waypoints, estimator_null, callback_null, sync, oob))

\* The fleet adapter calls dock.
Dock ==
  \E dock_name \in DockNames, sync \in BOOLEAN : Call(dock(Cur, dock_name, sync))

\* The fleet adapter calls stop.
Stop == Call(stop(Cur))

\* The integrator calls finished() on a command it holds.
Finished ==
  \E c \in Begun : Call(finish(Cur, c, "later"))

\* The integrator calls override_schedule on a command it holds.
OverrideSchedule ==
  \E c \in Begun, path \in OverridePaths : Call(override_schedule(Cur, c, path))

\* The integrator releases or drops the handle override_schedule returned.
Release ==
  \E o \in Overrides : Call(release(Cur, o))

\* The integrator reports a position, for a command it holds or for none.
UpdatePosition ==
  \E activity \in Begun \cup {0}, p \in Positions :
    Call(update_position(Cur, activity, p))

Pop(s) == [s EXCEPT !.worker = Tail(@)]

\* The worker runs its oldest task.
RunFinish ==
  /\ worker # <<>>
  /\ Head(worker).type = "finish"
  /\ \E sync \in BOOLEAN :
       Run(finish_task(Pop(Cur), Head(worker).cmd, Head(worker).finisher, sync))

RunOverride ==
  /\ worker # <<>>
  /\ Head(worker).type = "override"
  /\ Run(override_task(Pop(Cur), Head(worker).cmd, Head(worker).stubborn,
                       Head(worker).arg))

RunUpdate ==
  /\ worker # <<>>
  /\ Head(worker).type = "update"
  /\ Run(update_task(Pop(Cur), Head(worker).cmd, Head(worker).arg))

\* The planner of the robot's context becomes unavailable or available
\* (counted with the calls).
SetPlanner ==
  /\ ~fault
  /\ calls + 1 <= MaxCalls
  /\ calls' = calls + 1
  /\ planner' = ~planner
  /\ UNCHANGED <<closed_lanes, location, itinerary, data, update_fn, impl,
                 trackers, current_progress, worker, stubborn, replan_requested,
                 hist, fault, fleet, go_to_place>>

\* The subscriber of the replan request takes it.
ServeReplan ==
  /\ ~fault
  /\ replan_requested
  /\ replan_requested' = FALSE
  /\ UNCHANGED <<planner, closed_lanes, location, itinerary, data, update_fn,
                 impl, trackers, current_progress, worker, stubborn, hist, fault,
                 calls, fleet, go_to_place>>

Next ==
  \/ FollowNewPath
  \/ Dock
  \/ Stop
  \/ Finished
  \/ OverrideSchedule
  \/ Release
  \/ UpdatePosition
  \/ RunFinish
  \/ RunOverride
  \/ RunUpdate
  \/ SetPlanner
  \/ ServeReplan

Spec == Init /\ [][Next]_vars

\* ------------------------------------------- location reconciliation runs
\* A plan W0 -> W4 whose goal is approached through lanes 0, 2, 3 and 4.
PathE == <<PlanWaypoint(0, <<>>), PlanWaypoint(4, <<0, 2, 3, 4>>)>>
LocPaths == {PathA, PathE}

\* Lane closures of the planner configuration.
LaneClosures == {{}, {0}, {1}, {2}, {1, 2}, {3}}

\* Reported positions: on W0, on W1, beside lane 0, between lanes 2 and 3
\* (nearer to lane 3, nearer to lane 2), on W3, on W4, and off the graph.
LocPositions ==
  {<<0, 0>>, <<20, 0>>, <<10, 5>>, <<37, 5>>, <<35, 3>>, <<40, 20>>, <<40, 21>>,
   <<10, 30>>}

\* The state of a robot that has just been added, as a record.
AddedRobot ==
  [planner |-> TRUE, closed_lanes |-> {}, location |-> compute_plan_starts(<<0, 0>>),
   itinerary |-> [next_plan_id |-> 1, plan_id |-> 0, delay |-> NoDelay],
   data |-> <<>>, update_fn |-> <<>>, impl |-> <<>>, trackers |-> <<>>,
   current_progress |-> 0, worker |-> <<>>, stubborn |-> <<>>,
   replan_requested |-> FALSE, hist |-> <<>>, fault |-> FALSE, calls |-> 0,
   fleet |-> add_robot(NoRobots, "robot", <<0, 0>>, FALSE, FALSE, FALSE),
   go_to_place |-> make_active]

\* The variables hold the state s.
Holds(s) ==
  /\ planner = s.planner
  /\ closed_lanes = s.closed_lanes
  /\ location = s.location
  /\ itinerary = s.itinerary
  /\ data = s.data
  /\ update_fn = s.update_fn
  /\ impl = s.impl
  /\ trackers = s.trackers
  /\ current_progress = s.current_progress
  /\ worker = s.worker
  /\ stubborn = s.stubborn
  /\ replan_requested = s.replan_requested
  /\ hist = s.hist
  /\ fault = s.fault
  /\ calls = s.calls
  /\ fleet = s.fleet
  /\ go_to_place = s.go_to_place

\* override_schedule called on command c and its task run.
overridden(s, c, path) ==
  LET s1 == override_schedule(s, c, path)
  IN  override_task(Pop(s1), c, Len(s1.stubborn), path)

\* A robot under some lane closures that has accepted a path and begun its
\* first command, with or without a schedule override installed on it, and
\* whose planner is available or has become unavailable since.
LocInit ==
  \E waypoints \in LocPaths, closed \in LaneClosures, available, over \in BOOLEAN,
     oob \in OutOfBounds :
    LET s0 == [AddedRobot EXCEPT !.closed_lanes = closed]
        s1 == follow_new_path(s0, waypoints, FALSE, FALSE, FALSE, oob)
        s2 == IF over
              THEN overridden(s1, 1, CHOOSE path \in OverridePaths : TRUE)
              ELSE s1
    IN  Holds([s2 EXCEPT !.planner = available])

\* The integrator reports a position for the begun command once the worker
\* has processed the previous report.
LocUpdatePosition ==
  /\ worker = <<>>
  /\ \E p \in LocPositions : Call(update_position(Cur, 1, p))

LocNext ==
  \/ LocUpdatePosition
  \/ RunUpdate

LocSpec == LocInit /\ [][LocNext]_vars

\* ------------------------------------------------- commands of a stale graph
\* Hints of a command that was issued for a graph the planner has since
\* replaced by the present one: waypoint 7 and lane 9 are outside its range.
StaleWaypointHints == {<<0, 1>>, <<0, 7>>, <<7, 0>>}
StaleLaneHints == {<<0>>, <<9>>, <<0, 9>>}

\* A robot whose begun command carries such hints, with or without a schedule
\* override installed on it, and whose planner is available or not.
StaleInit ==
  \E wps \in StaleWaypointHints, lanes \in StaleLaneHints, available, over \in BOOLEAN :
    LET d == [waypoints |-> wps, lanes |-> lanes, final_orientation |-> TRUE,
              schedule_override |-> NoOverride,
              arrival_estimator |->
                [kind |-> "path", target_index |-> 1, plan_id |-> 0]]
        s1 == make_command(AddedRobot, d, "nav")
        s2 == make_tracker(s1, <<1>>, "path")
        s3 == next(s2, s2.current_progress, FALSE)
        s4 == IF over
              THEN overridden(s3, 1, CHOOSE path \in OverridePaths : TRUE)
              ELSE s3
    IN  Holds([s4 EXCEPT !.planner = available])

StaleSpec == StaleInit /\ [][LocNext]_vars

\* ------------------------------------------------------- registering robots
RobotNames == {"r1", "r2"}

\* Initial locations: on W0, and too far from the graph for any start.
InitialLocations == {<<0, 0>>, <<10, 30>>}

\* A fleet without robots.
AddInit == Holds([AddedRobot EXCEPT !.fleet = NoRobots])

\* The integrator calls add_robot with these arguments.
CallAddRobot(name, p, nav_null, stop_null, dock_null) ==
  /\ calls + 1 <= MaxCalls
  /\ Commit([Cur EXCEPT
               !.fleet = add_robot(@, name, p, nav_null, stop_null, dock_null),
               !.calls = @ + 1])

\* The integrator calls add_robot.
AddRobot ==
  \E name \in RobotNames, p \in InitialLocations,
     nav_null, stop_null, dock_null \in BOOLEAN :
    CallAddRobot(name, p, nav_null, stop_null, dock_null)

AddSpec == AddInit /\ [][AddRobot]_vars

\* ------------------------------------------------ paths followed to the end
\* The fleet adapter hands the robot a path, while it has handed it fewer
\* than MaxPaths.
LiveFollowNewPath ==
  /\ Len(trackers) < MaxPaths
  /\ \E waypoints \in {PathA, PathB}, sync \in BOOLEAN, oob \in OutOfBounds :
       Commit(follow_new_path(Cur, waypoints, FALSE, FALSE, sync, oob))

\* finished() has been called on command c: its finish task is queued or ran.
FinishCalled(c) ==
  \/ hist[c].finish_tasks > 0
  \/ \E i \in 1..Len(worker) : worker[i].type = "finish" /\ worker[i].cmd = c

\* The integrator calls finished() on a begun command it has not finished.
LiveFinished ==
  \E c \in Begun : ~FinishCalled(c) /\ Commit(finish(Cur, c, "later"))

\* The worker runs its oldest task, a finish task.
LiveRunFinish ==
  /\ worker # <<>>
  /\ Head(worker).type = "finish"
  /\ \E sync \in BOOLEAN :
       Commit(finish_task(Pop(Cur), Head(worker).cmd, Head(worker).finisher, sync))

LiveNext ==
  \/ LiveFollowNewPath
  \/ LiveFinished
  \/ LiveRunFinish

\* No stop, no schedule override; the worker runs every task it is given and
\* the integrator eventually calls finished() on every command it was handed.
LiveSpec ==
  /\ Init
  /\ [][LiveNext]_vars
  /\ WF_vars(LiveRunFinish)
  /\ WF_vars(LiveFinished)

\* ------------------------------------------------------- a GoToPlace event
\* The path-finding service resolves a pending request, with a plan or with a
\* failure (at most MaxAttempts requests are made, so the last one succeeds).
GoResolve ==
  \E id \in 1..Len(go_to_place.requests), result \in {"plan", "failure"} :
    /\ go_to_place.requests[id].result = "pending"
    /\ result = "failure" => Len(go_to_place.requests) < MaxAttempts
    /\ Commit([Cur EXCEPT !.go_to_place.requests[id].result = result])

\* The polling timer hands a resolved request's result to the event.
GoPoll ==
  \E id \in 1..Len(go_to_place.requests) :
    /\ go_to_place.requests[id].result # "pending"
    /\ ~go_to_place.requests[id].delivered
    /\ Commit([Cur EXCEPT !.go_to_place = on_result(@, id)])

\* The task cancels or kills the event.
GoCancel ==
  /\ go_to_place.status = "active"
  /\ Commit([Cur EXCEPT !.go_to_place = cancel(@)])
GoKill ==
  /\ go_to_place.status # "killed"
  /\ Commit([Cur EXCEPT !.go_to_place = kill(@)])

\* While a request is outstanding the worker stays free to process location
\* updates.
GoNext ==
  \/ GoResolve
  \/ GoPoll
  \/ GoCancel
  \/ GoKill
  \/ UpdatePosition
  \/ RunUpdate

GoSpec == Init /\ [][GoNext]_vars

\* ------------------------------------------------- paths of every length
\* A path of a single waypoint, and a path that comes back to its first
\* waypoint before it ends.
PathOne == <<PlanWaypoint(0, <<>>)>>
PathD == <<PlanWaypoint(0, <<>>), PlanWaypoint(1, <<0>>), PlanWaypoint(0, <<1>>),
           PlanWaypoint(1, <<0>>)>>
\* Paths that end with a turn on the spot at W1, once and twice.
PathRot == <<PlanWaypoint(0, <<>>), PlanWaypoint(1, <<0>>), PlanWaypoint(1, <<>>)>>
PathTurns == <<PlanWaypoint(0, <<>>), PlanWaypoint(1, <<0>>), PlanWaypoint(1, <<>>),
               PlanWaypoint(1, <<>>)>>
PathInputs == {PathOne, PathA, PathB, PathC, PathD, PathE, PathRot, PathTurns}

\* Locations of the robot when the path arrives: on W0, on lane 0, on W1,
\* on W2 and on W4.
PathLocations ==
  {compute_plan_starts(<<0, 0>>), lane_starts(0), waypoint_starts(1, {}),
   <<Start(2, NoLane)>>, <<Start(4, NoLane)>>}

PathInit ==
  \E l \in PathLocations : Holds([AddedRobot EXCEPT !.location = l])

\* The fleet adapter hands the robot a path, while it has handed it fewer
\* than MaxPaths and the process is running.
PathFollowNewPath ==
  /\ ~fault
  /\ Len(trackers) < MaxPaths
  /\ \E waypoints \in PathInputs, oob \in OutOfBounds :
       Commit(follow_new_path(Cur, waypoints, FALSE, FALSE, FALSE, oob))

PathSpec == PathInit /\ [][PathFollowNewPath]_vars

\* ------------------------------------------------------- paths turned down
\* A path from W3 to W4, which a robot near W0 or W1 is not connected to.
PathFar == <<PlanWaypoint(3, <<>>), PlanWaypoint(4, <<4>>)>>
RejectPaths == {<<>>, PathA, PathFar}

\* A robot on W0 or on W4 whose planner is available or not.
RejectInit ==
  \E l \in {compute_plan_starts(<<0, 0>>), <<Start(4, NoLane)>>},
     available \in BOOLEAN :
    Holds([AddedRobot EXCEPT !.location = l, !.planner = available])

\* The fleet adapter calls follow_new_path with these arguments; the call is
\* counted whether or not the path is accepted.
CallFollowNewPath(waypoints, estimator_null, callback_null, sync, oob) ==
  /\ ~fault
  /\ calls + 1 <= MaxCalls
  /\ Commit([follow_new_path(Cur, waypoints, estimator_null, callback_null,
                             sync, oob) EXCEPT !.calls = @ + 1])

RejectFollowNewPath ==
  \E waypoints \in RejectPaths, estimator_null, callback_null, sync \in BOOLEAN,
     oob \in OutOfBounds :
    CallFollowNewPath(waypoints, estimator_null, callback_null, sync, oob)

RejectNext ==
  \/ RejectFollowNewPath
  \/ SetPlanner

RejectSpec == RejectInit /\ [][RejectNext]_vars

\* ------------------------------------------------------- paths and stops
\* The fleet adapter hands the robot a path with valid arguments.
StopFollowNewPath ==
  \E waypoints \in {PathA, PathB}, sync \in BOOLEAN, oob \in OutOfBounds :
    Call(follow_new_path(Cur, waypoints, FALSE, FALSE, sync, oob))

\* The fleet adapter calls stop; the call is counted whatever it does.
CallStop ==
  /\ ~fault
  /\ calls + 1 <= MaxCalls
  /\ Commit([stop(Cur) EXCEPT !.calls = @ + 1])

StopNext ==
  \/ StopFollowNewPath
  \/ Dock
  \/ CallStop
  \/ Finished
  \/ RunFinish

StopSpec == Init /\ [][StopNext]_vars

\* ------------------------------------------------------ arrival estimates
\* Hints of a command: none (a dock without a lane), W0 and W1 by lane 0, and
\* hints that name a waypoint or a lane the graph does not have.
EstimateWaypointHints == {<<>>, <<0, 1>>, <<0, 7>>}
EstimateLaneHints == {<<>>, <<0>>, <<9>>}

\* A robot whose begun command carries such hints, with or without a schedule
\* override installed on it, and whose planner is available or not.
EstimateInit ==
  \E wps \in EstimateWaypointHints, lanes \in EstimateLaneHints,
     available, over \in BOOLEAN :
    LET d == [waypoints |-> wps, lanes |-> lanes, final_orientation |-> TRUE,
              schedule_override |-> NoOverride,
              arrival_estimator |->
                [kind |-> "path", target_index |-> 1, plan_id |-> 0]]
        s1 == make_command(AddedRobot, d, "nav")
        s2 == make_tracker(s1, <<1>>, "path")
        s3 == next(s2, s2.current_progress, FALSE)
        s4 == IF over
              THEN overridden(s3, 1, CHOOSE path \in OverridePaths : TRUE)
              ELSE s3
    IN  Holds([s4 EXCEPT !.planner = available])

EstimateSpec == EstimateInit /\ [][LocNext]_vars

\* ------------------------------------------------- updates on an override
\* Paths given to override_schedule: none, a single position, one segment,
\* and two segments with a corner at W1.
OverrideRoutes ==
  {<<>>, << <<0, 0>> >>, << <<0, 0>>, <<20, 0>> >>,
   << <<0, 0>>, <<20, 0>>, <<20, 20>> >>}

\* Reported positions: beside the first segment, beside the second and
\* nearer to it than to the first, past the first and beside the second, past
\* both, and on the first position.
OverridePositions == {<<10, 5>>, <<18, 10>>, <<37, 5>>, <<40, 21>>, <<0, 0>>}

\* A robot whose begun command has a schedule override installed, and whose
\* planner is available or has become unavailable since.
OverrideInit ==
  \E path \in OverrideRoutes, available \in BOOLEAN, oob \in OutOfBounds :
    LET s1 == follow_new_path(AddedRobot, PathA, FALSE, FALSE, FALSE, oob)
        s2 == overridden(s1, 1, path)
    IN  Holds([s2 EXCEPT !.planner = available])

OverrideUpdatePosition ==
  /\ worker = <<>>
  /\ \E p \in OverridePositions : Call(update_position(Cur, 1, p))

OverrideNext ==
  \/ OverrideUpdatePosition
  \/ RunUpdate

OverrideSpec == OverrideInit /\ [][OverrideNext]_vars

\* ------------------------------------------------------------- docking
\* The fleet adapter calls dock; the call is counted whatever it does.
CallDock(dock_name, sync) ==
  LET s == dock(Cur, dock_name, sync)
  IN  /\ ~fault
      /\ s.calls + 1 <= MaxCalls
      /\ Commit([s EXCEPT !.calls = @ + 1])

DockCalled == \E dock_name \in DockNames, sync \in BOOLEAN : CallDock(dock_name, sync)

\* Reported positions: beside lane 0, and beside lane 2, which has the dock.
DockPositions == {<<10, 5>>, <<30, 5>>}

\* The integrator reports a position for the command it was last handed.
DockUpdatePosition ==
  /\ worker = <<>>
  /\ \E c \in Begun, p \in DockPositions :
       /\ \A c2 \in Begun : c2 <= c
       /\ Call(update_position(Cur, c, p))

DockNext ==
  \/ DockCalled
  \/ DockUpdatePosition
  \/ RunUpdate
  \/ Finished
  \/ RunFinish
  \/ SetPlanner

DockSpec == Init /\ [][DockNext]_vars

\* ------------------------------------------------- stubbornness tokens
\* A robot that has begun the one command of a path.
TokenInit ==
  \E oob \in OutOfBounds :
    Holds(follow_new_path(AddedRobot, PathA, FALSE, FALSE, FALSE, oob))

TokenNext ==
  \/ OverrideSchedule
  \/ Release
  \/ RunOverride
  \/ Finished
  \/ RunFinish
  \/ Stop
  \/ SetPlanner

TokenSpec == TokenInit /\ [][TokenNext]_vars

\* ========================================================== properties
\* The commands of tracker t, in the order of the queue given to make.
QueueOf(t) == trackers[t].queue
Live(c) == update_fn[c]
BegunCount(t) == Cardinality({k \in 1..Len(QueueOf(t)) : hist[QueueOf(t)[k]].begun > 0})
FinishTasksQueued ==
  {i \in 1..Len(worker) : worker[i].type = "finish"}

\* C1: However often finished() is called on a command and however its finish
\* tasks interleave with other tasks, the tracker is advanced at most once for
\* that command, a replan is requested at most once for it, its override's
\* stubbornness is released at most once, and it either advances or replans.
C1_FinishedIdempotent ==
  \A c \in Cmds :
    /\ hist[c].advanced <= 1
    /\ hist[c].replanned <= 1
    /\ hist[c].auto_released <= 1
    /\ hist[c].advanced + hist[c].replanned <= 1

\* Two finish tasks of one command have run, and the tracker advanced once.
C1_Witness ==
  \E c \in Cmds : hist[c].finish_tasks >= 2 /\ hist[c].advanced = 1

\* C2 as claimed: for the robot's current tracker, once every command begun
\* so far has finished, each of its N commands has been begun exactly once
\* and its completion callback has fired exactly once, however they finished.
C2_AsClaimed ==
  \A t \in Trackers :
    (/\ current_progress = t
     /\ \A k \in 1..Len(QueueOf(t)) :
          hist[QueueOf(t)[k]].begun > 0 => ~Live(QueueOf(t)[k]))
    => /\ \A k \in 1..Len(QueueOf(t)) : hist[QueueOf(t)[k]].begun = 1
       /\ trackers[t].fired = 1

\* C2 amended: no command is begun twice and no completion fires twice; and
\* for the robot's current tracker, once every command begun so far has
\* finished and none of them finished with a schedule override installed,
\* each of its N commands has been begun exactly once and the completion has
\* fired exactly once.
C2_ExactlyNBegins ==
  \A t \in Trackers :
    /\ \A k \in 1..Len(QueueOf(t)) : hist[QueueOf(t)[k]].begun <= 1
    /\ trackers[t].fired <= 1
    /\ (/\ current_progress = t
        /\ \A k \in 1..Len(QueueOf(t)) :
             /\ hist[QueueOf(t)[k]].begun > 0 => ~Live(QueueOf(t)[k])
             /\ hist[QueueOf(t)[k]].replanned = 0)
       => /\ \A k \in 1..Len(QueueOf(t)) : hist[QueueOf(t)[k]].begun = 1
          /\ trackers[t].fired = 1

\* A tracker over two commands has begun both and fired its completion.
C2_Witness ==
  \E t \in Trackers :
    /\ Len(QueueOf(t)) = 2
    /\ BegunCount(t) = 2
    /\ trackers[t].fired = 1
    /\ trackers[t].kind = "path"

\* C3: The commands of a tracker are begun in queue order, command k+1 is
\* begun only after command k has been begun and has become inert, and at
\* most one command of a tracker is begun and still live.
C3_BegunInOrder ==
  \A t \in Trackers :
    /\ \A k \in 1..(Len(QueueOf(t)) - 1) :
         hist[QueueOf(t)[k + 1]].begun > 0
           => hist[QueueOf(t)[k]].begun > 0 /\ ~Live(QueueOf(t)[k])
    /\ Cardinality({k \in 1..Len(QueueOf(t)) :
                      hist[QueueOf(t)[k]].begun > 0 /\ Live(QueueOf(t)[k])}) <= 1
    /\ trackers[t].reverse_queue =
         Reverse(SubSeq(QueueOf(t), BegunCount(t) + 1, Len(QueueOf(t))))

\* The second command of a tracker is begun and live, the first is inert.
C3_Witness ==
  \E t \in Trackers :
    /\ Len(QueueOf(t)) = 2
    /\ hist[QueueOf(t)[2]].begun = 1
    /\ Live(QueueOf(t)[2])
    /\ ~Live(QueueOf(t)[1])

\* C4: The completion callback of a tracker fires at most once, and only when
\* every command of its queue has been begun and has finished.
C4_CompletionOnceAtEnd ==
  \A t \in Trackers :
    /\ trackers[t].fired <= 1
    /\ trackers[t].fired >= 1
         => \A k \in 1..Len(QueueOf(t)) :
              hist[QueueOf(t)[k]].begun >= 1 /\ ~Live(QueueOf(t)[k])

\* The docking-finished callback has fired.
C4_Witness ==
  \E t \in Trackers : trackers[t].kind = "dock" /\ trackers[t].fired = 1

\* The begin callbacks invoked so far.
TotalBegun == {<<c, n>> \in Cmds \X (1..3) : n <= hist[c].begun}

\* While the finish task that a begin callback scheduled is waiting and its
\* command is live, the tracker has not moved on: the command is still its
\* current one, no later command is begun and the completion has not fired.
SyncFinishWaits ==
  \A i \in FinishTasksQueued :
    (worker[i].arg = "begin" /\ Live(worker[i].cmd))
    => LET c == worker[i].cmd
           t == worker[i].finisher
       IN  /\ hist[c].begun = 1
           /\ trackers[t].current_identifier = c
           /\ trackers[t].fired = 0
           /\ \A k \in 1..Len(QueueOf(t)) :
                QueueOf(t)[k] > c => hist[QueueOf(t)[k]].begun = 0

\* No step invokes more than one begin callback.
OneBeginPerStep ==
  Cardinality({c \in 1..Len(hist') :
                 hist'[c].begun > (IF c \in Cmds THEN hist[c].begun ELSE 0)}) <= 1

\* C5: A finished() called inside a begin callback does not advance the
\* tracker inside that call: no step begins two commands, the advance waits
\* for the worker, every command is begun at most once and the completion
\* fires only after the last command has been begun and has finished.
C5_SyncFinishNotReentrant ==
  /\ [](SyncFinishWaits /\ C4_CompletionOnceAtEnd
        /\ \A c \in Cmds : hist[c].begun <= 1)
  /\ [][OneBeginPerStep]_vars

\* A begin callback has called finished(), the task is waiting, and the
\* tracker still has a command to begin.
C5_Witness ==
  \E i \in FinishTasksQueued :
    /\ worker[i].arg = "begin"
    /\ Live(worker[i].cmd)
    /\ trackers[worker[i].finisher].reverse_queue # <<>>

\* C6 as claimed: at most one command has a non-null update function.
C6_AtMostOneLive ==
  Cardinality({c \in Cmds : Live(c)}) <= 1

\* C7 as claimed: no inert command has an override whose StubbornOverride
\* still holds a stubbornness token.
C7_InertHoldsNoToken ==
  \A o \in Overrides : ~Live(stubborn[o].cmd) => ~stubborn[o].stubbornness

\* C8: Once the finish task of a command has run with a schedule override
\* installed, no StubbornOverride made for that command holds a token, also
\* when the caller never released the handle.
C8_FinishReleases ==
  \A o \in Overrides :
    hist[stubborn[o].cmd].auto_released >= 1 => ~stubborn[o].stubbornness

\* The override of a command was installed, its finish task has run, and the
\* caller still holds the handle.
C8_Witness ==
  \E o \in Overrides :
    /\ stubborn[o].handle
    /\ data[stubborn[o].cmd].schedule_override.stubborn = o
    /\ hist[stubborn[o].cmd].auto_released = 1
    /\ ~stubborn[o].stubbornness

\* C9: After an explicit release (once the override task is gone) and after
\* the automatic release at command completion, in either order, the override
\* holds no token; and releasing again, either way, changes nothing and calls
\* no empty function.
C9_ReleaseIdempotent ==
  /\ \A o \in Overrides :
       /\ (~stubborn[o].handle /\ ~stubborn[o].task) => ~stubborn[o].stubbornness
       /\ hist[stubborn[o].cmd].auto_released >= 1 => ~stubborn[o].stubbornness
       /\ ~release(Cur, o).stubborn[o].stubbornness \/ stubborn[o].task
       /\ release(release(Cur, o), o) = release(Cur, o)
       /\ ~stubborn[o].handle => release(Cur, o) = Cur
  /\ \A c \in Cmds :
       LET once == release_stubbornness(Cur, c)
       IN  /\ release_stubbornness(once, c) = once
           /\ once.fault = fault
           /\ data[c].schedule_override # NoOverride
                => ~once.stubborn[data[c].schedule_override.stubborn].stubbornness

\* An override was released by the command's finish task and by the caller.
C9_Witness ==
  \E o \in Overrides :
    /\ ~stubborn[o].handle
    /\ ~stubborn[o].task
    /\ data[stubborn[o].cmd].schedule_override.stubborn = o
    /\ hist[stubborn[o].cmd].auto_released = 1

\* The worker's next task is a position update for an identifier whose
\* update function has been cleared.
InertUpdateNext ==
  /\ worker # <<>>
  /\ Head(worker).type = "update"
  /\ Head(worker).cmd # 0
  /\ ~Live(Head(worker).cmd)

\* C10 as claimed: a position update processed for a cleared identifier only
\* leaves the queue: it changes nothing else and calls no empty function.
C10_InertUpdateIsNoOp ==
  [][(InertUpdateNext /\ worker' = Tail(worker))
       => /\ fault' = fault
          /\ UNCHANGED <<planner, closed_lanes, location, itinerary, data,
                         update_fn, impl, trackers, current_progress, stubborn,
                         replan_requested, hist>>]_vars

\* The worker's next task is of the given type and this step runs it.
RunsHead(type) ==
  /\ worker # <<>>
  /\ Head(worker).type = type
  /\ worker' = Tail(worker)

\* C11: A position update processed for an inert identifier changes neither
\* the robot's location start set nor the itinerary's delay, and does not
\* invoke the command's arrival estimator, whatever was submitted before it.
C11_InertUpdateMutatesNothing ==
  [][(InertUpdateNext /\ RunsHead("update"))
       => /\ location' = location
          /\ itinerary' = itinerary
          /\ hist' = hist
          /\ data' = data]_vars

\* A position update has been processed for an identifier that was inert, and
\* the location is still the one the robot was added with.
C11_Witness ==
  /\ fault
  /\ \E c \in Cmds : ~Live(c) /\ ~hist[c].estimated
  /\ location = compute_plan_starts(<<0, 0>>)

\* No StubbornOverride gains a token in this step.
NoTokenGained ==
  \A o \in Overrides : stubborn'[o].stubbornness => stubborn[o].stubbornness

\* A finish or override task of a stopped command runs and does nothing.
StoppedTaskIsNoOp ==
  ((RunsHead("finish") \/ RunsHead("override")) /\ hist[Head(worker).cmd].stopped >= 1)
    => /\ UNCHANGED <<trackers, current_progress, data, itinerary, update_fn,
                      impl, location, replan_requested, fault>>
       /\ NoTokenGained
       /\ hist' = [hist EXCEPT ![Head(worker).cmd].finish_tasks =
                                  hist'[Head(worker).cmd].finish_tasks]

\* A stopped command never advanced its tracker: no later command of the
\* tracker is begun and its completion has not fired.
StoppedPathStays ==
  \A t \in Trackers : \A k \in 1..Len(QueueOf(t)) :
    hist[QueueOf(t)[k]].stopped >= 1
      => /\ ~Live(QueueOf(t)[k])
         /\ hist[QueueOf(t)[k]].advanced = 0
         /\ trackers[t].fired = 0
         /\ \A j \in (k + 1)..Len(QueueOf(t)) : hist[QueueOf(t)[j]].begun = 0

\* C12: A finish task or an override task of the current command that is
\* still queued when stop() is called does nothing when it runs: the tracker
\* does not advance, no further command of the stopped path is begun, the
\* completion never fires, no override is installed, no replan is requested.
C12_StopNeutralizesQueuedTasks ==
  /\ []StoppedPathStays
  /\ [][StoppedTaskIsNoOp]_vars

\* stop() was called with a finish task and an override task of the command
\* queued, and both tasks have run since.
C12_Witness ==
  \E c \in Cmds, o \in Overrides :
    /\ hist[c].stopped >= 1
    /\ hist[c].finish_tasks >= 1
    /\ hist[c].replanned = 0
    /\ stubborn[o].cmd = c
    /\ ~stubborn[o].task
    /\ data[c].schedule_override = NoOverride
    /\ planner

\* An override task that runs for an inert command installs nothing.
LateOverrideInstallsNothing ==
  (RunsHead("override") /\ ~Live(Head(worker).cmd))
    => /\ itinerary' = itinerary
       /\ data' = data
       /\ NoTokenGained

\* An override task that runs for a live command installs the override under
\* a new plan id and makes the robot stubborn while the handle is held.
EarlyOverrideInstalls ==
  LET c == Head(worker).cmd
      o == Head(worker).stubborn
  IN  /\ data'[c].schedule_override.stubborn = o
      /\ data'[c].schedule_override.plan_id = itinerary.next_plan_id
      /\ itinerary'.plan_id = itinerary.next_plan_id
      /\ itinerary'.next_plan_id = itinerary.next_plan_id + 1
      /\ stubborn'[o].stubbornness = stubborn[o].handle

\* The finish task of a command with an override leaves no token behind.
FinishReleasesInstalled ==
  \A c \in Cmds :
    (data[c].schedule_override # NoOverride /\ hist[c].finish_tasks >= 1 /\ ~Live(c))
      => ~stubborn[data[c].schedule_override.stubborn].stubbornness
         \/ hist[c].stopped >= 1

\* C13 as claimed: an override task that runs after the command's finish task
\* installs nothing, and one that runs before it, on the live command, is
\* always fully installed and then released by the finish task.
C13_AsClaimed ==
  /\ []FinishReleasesInstalled
  /\ [][/\ LateOverrideInstallsNothing
        /\ (RunsHead("override") /\ Live(Head(worker).cmd)) => EarlyOverrideInstalls]_vars

\* C13 amended: an override task that runs after the command's finish task
\* installs nothing; one that runs before it, on the live command, is fully
\* installed if the planner is available and installs nothing if it is not;
\* an installed override is released by the finish task.
C13_OverrideFinishSerialized ==
  /\ []FinishReleasesInstalled
  /\ [][/\ LateOverrideInstallsNothing
        /\ (RunsHead("override") /\ Live(Head(worker).cmd) /\ planner)
             => EarlyOverrideInstalls
        /\ (RunsHead("override") /\ Live(Head(worker).cmd) /\ ~planner)
             => (itinerary' = itinerary /\ data' = data /\ NoTokenGained)]_vars

\* The first override task of a command ran before its finish task, was
\* installed and was released by the finish task; a second override task of
\* the command, scheduled later, has run too and installed nothing.
C13_Witness ==
  \E o1, o2 \in Overrides :
    /\ o1 < o2
    /\ stubborn[o1].cmd = stubborn[o2].cmd
    /\ ~stubborn[o1].task
    /\ ~stubborn[o2].task
    /\ stubborn[o2].handle
    /\ ~stubborn[o2].stubbornness
    /\ data[stubborn[o1].cmd].schedule_override.stubborn = o1
    /\ hist[stubborn[o1].cmd].auto_released = 1
    /\ hist[stubborn[o1].cmd].stopped = 0
    /\ planner

\* The finish task of a live command runs: the command becomes inert; with an
\* override installed the override is released, a replan is requested and the
\* tracker is left alone; without one the tracker's continuation runs (it
\* advances the tracker it belongs to if that is still the robot's current
\* one) and no replan is requested.
LiveFinishTaskStep ==
  LET c == Head(worker).cmd
      t == Head(worker).finisher
      over == data[c].schedule_override
  IN  (RunsHead("finish") /\ Live(c))
        => /\ ~update_fn'[c]
           /\ over # NoOverride
                => /\ replan_requested'
                   /\ ~stubborn'[over.stubborn].stubbornness
                   /\ hist'[c].replanned = hist[c].replanned + 1
                   /\ hist'[c].advanced = hist[c].advanced
                   /\ UNCHANGED <<trackers, current_progress>>
                   /\ \A d \in Cmds : hist'[d].begun = hist[d].begun
           /\ over = NoOverride
                => /\ replan_requested' = replan_requested
                   /\ hist'[c].replanned = hist[c].replanned
                   /\ stubborn' = stubborn
                   /\ t # 0
                   /\ IF current_progress = t
                      THEN /\ hist'[c].advanced = hist[c].advanced + 1
                           /\ trackers'[t] # trackers[t]
                      ELSE /\ hist'[c].advanced = hist[c].advanced
                           /\ trackers' = trackers

\* C14: When the finish task of a live command runs, the identifier becomes
\* inert and exactly one of two things happens: with a schedule override
\* installed it is released and a replan is requested without the tracker's
\* continuation; otherwise the continuation is invoked and no replan is
\* requested.
C14_FinishTaskBranches ==
  [][LiveFinishTaskStep]_vars

\* Both branches have been taken: one command finished with an override and
\* requested a replan, another advanced its tracker.
C14_Witness ==
  \E c1, c2 \in Cmds :
    /\ hist[c1].replanned = 1
    /\ hist[c1].advanced = 0
    /\ hist[c2].advanced = 1
    /\ hist[c2].replanned = 0

Okay(c) == okay(Cur, c)

\* finished() is called on command c in this step.
FinishedCalled(c) ==
  /\ Len(worker') = Len(worker) + 1
  /\ Last(worker').type = "finish"
  /\ Last(worker').cmd = c
  /\ Last(worker').arg = "later"

\* C15: okay() is true exactly when the command's update function is
\* non-null: false once stop() was called on it and once a finish task of it
\* has run, true otherwise, and unchanged by a call of finished(), so still
\* true until the worker runs the task.
C15_OkayTracksUpdateFn ==
  /\ [](\A c \in Cmds :
          /\ Okay(c) <=> update_fn[c]
          /\ hist[c].stopped >= 1 => ~Okay(c)
          /\ hist[c].finish_tasks >= 1 => ~Okay(c)
          /\ (hist[c].stopped = 0 /\ hist[c].finish_tasks = 0) => Okay(c))
  /\ [][\A c \in Cmds : FinishedCalled(c) => (update_fn'[c] <=> Okay(c))]_vars

\* finished() has been called on a command and the task is still queued: the
\* command is okay; and another command is not okay after stop().
C15_Witness ==
  /\ \E i \in FinishTasksQueued :
       worker[i].arg = "later" /\ Okay(worker[i].cmd)
  /\ \E c \in Cmds : hist[c].stopped >= 1 /\ ~Okay(c)

\* C16: An update function, once cleared, is never set again, and no
\* operation removes or re-arms an identifier.
C16_InertIsForever ==
  [][/\ Len(update_fn') >= Len(update_fn)
     /\ \A c \in Cmds : ~update_fn[c] => ~update_fn'[c]]_vars

\* A command was stopped and a later path has been accepted and begun.
C16_Witness ==
  \E c \in Cmds, t \in Trackers :
    /\ hist[c].stopped >= 1
    /\ ~Live(c)
    /\ QueueOf(t)[1] > c
    /\ hist[QueueOf(t)[1]].begun = 1

\* The command and position of the update task the worker runs next.
UpdCmd == Head(worker).cmd
UpdPos == Head(worker).arg

\* The hinted waypoints within the waypoint merge distance of p, and the
\* hinted open lanes p projects onto within the lane merge distance.
HintedWaypointsInRange(c, p) ==
  {w \in Range(data[c].waypoints) : within_waypoint_distance(p, w)}
HintedLanesInRange(c, p) ==
  {l \in Range(data[c].lanes) : l \notin closed_lanes /\ within_lane_distance(p, l)}

\* The start set comes from one category: a closest hinted waypoint in range
\* if there is one, else a closest hinted lane in range if there is one, else
\* the whole-graph search.
OneCategoryProducesStarts(c, p) ==
  LET W == HintedWaypointsInRange(c, p)
      L == HintedLanesInRange(c, p)
      dw(w) == Norm2(Sub(p, get_location(w)))
  IN  IF W # {}
      THEN \E w \in W : /\ \A w2 \in W : dw(w) <= dw(w2)
                        /\ location' = waypoint_starts(w, closed_lanes)
      ELSE IF L # {}
      THEN \E l \in L :
             /\ \A l2 \in L : ~closer(p, lane_p0(l2), lane_p1(l2), lane_p0(l), lane_p1(l))
             /\ location' = lane_starts(l)
      ELSE location' = compute_plan_starts(p)

\* The worker runs a position update of a live command.
LiveUpdateRuns ==
  /\ RunsHead("update")
  /\ UpdCmd # 0
  /\ Live(UpdCmd)

\* C17 as claimed: for every location update of a live command that produces
\* a start set, exactly one of hinted-waypoint match, hinted-lane match and
\* whole-graph search produces it, lanes only without a waypoint in range, the
\* whole graph only without a lane match, and the closest hinted element is
\* the one chosen.
C17_AsClaimed ==
  [][(LiveUpdateRuns /\ planner) => OneCategoryProducesStarts(UpdCmd, UpdPos)]_vars

\* C17 amended: the same for every location update of a live command that has
\* no schedule override installed and is processed while the planner is
\* available; with an override the whole-graph search is used whatever the
\* hints match, and without a planner no start set is produced.
C17_OneCategoryPerUpdate ==
  [][/\ (LiveUpdateRuns /\ planner /\ data[UpdCmd].schedule_override = NoOverride)
          => OneCategoryProducesStarts(UpdCmd, UpdPos)
     /\ (LiveUpdateRuns /\ planner /\ data[UpdCmd].schedule_override # NoOverride)
          => location' = compute_plan_starts(UpdPos)
     /\ (LiveUpdateRuns /\ ~planner) => location' = location]_vars

\* Two hinted lanes were in range and the start set is that of the closer one;
\* no hinted waypoint was in range.
C17_Witness ==
  /\ data[1].lanes = <<0, 2, 3, 4>>
  /\ data[1].schedule_override = NoOverride
  /\ closed_lanes = {}
  /\ planner
  /\ worker = <<>>
  /\ location = lane_starts(3)
  /\ hist[1].estimated

\* C18: When a reconciliation finds a hinted waypoint W within
\* max_merge_waypoint_distance of the position, the start set it writes is
\* one start on W followed by one start per open lane leaving W, each on that
\* lane's exit through that lane, and no start uses a closed lane leaving W.
C18_WaypointMatchStarts ==
  [][(/\ LiveUpdateRuns
      /\ planner
      /\ data[UpdCmd].schedule_override = NoOverride
      /\ HintedWaypointsInRange(UpdCmd, UpdPos) # {})
       => \E W \in HintedWaypointsInRange(UpdCmd, UpdPos) :
            LET open == {l \in Range(LaneIds) :
                           get_lane(l).entry = W /\ l \notin closed_lanes}
            IN  /\ Len(location') = 1 + Cardinality(open)
                /\ location'[1] = [waypoint |-> W, lane |-> NoLane]
                /\ {location'[i] : i \in 2..Len(location')}
                     = {[waypoint |-> get_lane(l).exit, lane |-> l] : l \in open}
                /\ \A i \in 1..Len(location') :
                     location'[i].lane # NoLane
                       => /\ location'[i].lane \notin closed_lanes
                          /\ get_lane(location'[i].lane).entry = W]_vars

\* The position matched W1, of whose two leaving lanes lane 1 is closed: the
\* start set is W1 and the exit of lane 2.
C18_Witness ==
  /\ closed_lanes = {1}
  /\ data[1].schedule_override = NoOverride
  /\ planner
  /\ worker = <<>>
  /\ calls >= 1
  /\ location = << [waypoint |-> 1, lane |-> NoLane], [waypoint |-> 2, lane |-> 2] >>

\* C19 as claimed, for the reconciliations that a hinted lane settles: every
\* start that such a position update writes to the robot's location names a
\* lane that is open in the closure state of that update, the start through
\* the reverse lane of the matched lane included.
C19_StartsUseOpenLanes ==
  [][(/\ LiveUpdateRuns
      /\ planner
      /\ data[UpdCmd].schedule_override = NoOverride
      /\ HintedWaypointsInRange(UpdCmd, UpdPos) = {}
      /\ HintedLanesInRange(UpdCmd, UpdPos) # {})
       => \A i \in 1..Len(location') :
            location'[i].lane # NoLane => location'[i].lane \notin closed_lanes]_vars

\* C20 as claimed: a position update processed while the planner is
\* unavailable changes neither the location nor the itinerary's delay, with
\* or without a schedule override installed.
C20_NoPlannerNoMutation ==
  [][(RunsHead("update") /\ ~planner)
       => (location' = location /\ itinerary' = itinerary)]_vars

\* Some hinted waypoint, some hinted lane, of command c is outside the graph.
BadWaypointHint(c) == \E w \in Range(data[c].waypoints) : w >= num_waypoints
BadLaneHint(c) == \E l \in Range(data[c].lanes) : l >= num_lanes

\* The update is dropped: no location, no estimate, no delay.
UpdateDropped ==
  /\ location' = location
  /\ itinerary' = itinerary
  /\ hist' = hist

\* C21 as claimed: a location update of a live command (without schedule
\* override) whose hints contain a waypoint or lane index outside the graph is
\* dropped, whether or not some hinted waypoint matches the position.
C21_AsClaimed ==
  [][(/\ LiveUpdateRuns
      /\ data[UpdCmd].schedule_override = NoOverride
      /\ (BadWaypointHint(UpdCmd) \/ BadLaneHint(UpdCmd)))
       => UpdateDropped]_vars

\* C21 amended: a location update of a live command without schedule override
\* is dropped if a hinted waypoint index is outside the graph, whether or not
\* another hinted waypoint matches, and if a hinted lane index is outside the
\* graph while no hinted waypoint is within max_merge_waypoint_distance; when
\* a hinted waypoint is in range, lane hints are not examined and the update
\* is made from that waypoint.
C21_OutOfRangeDropsUpdate ==
  [][(LiveUpdateRuns /\ data[UpdCmd].schedule_override = NoOverride)
       => /\ BadWaypointHint(UpdCmd) => UpdateDropped
          /\ (/\ ~BadWaypointHint(UpdCmd)
              /\ BadLaneHint(UpdCmd)
              /\ HintedWaypointsInRange(UpdCmd, UpdPos) = {})
               => UpdateDropped
          /\ (/\ ~BadWaypointHint(UpdCmd)
              /\ BadLaneHint(UpdCmd)
              /\ HintedWaypointsInRange(UpdCmd, UpdPos) # {}
              /\ planner)
               => /\ \E w \in HintedWaypointsInRange(UpdCmd, UpdPos) :
                       location' = waypoint_starts(w, closed_lanes)
                  /\ hist'[UpdCmd].estimated]_vars

\* An update of a command hinting W0 and the missing waypoint 7 has run with
\* a planner: the robot is where it was added and no estimate was made.
C21_Witness ==
  /\ data[1].waypoints = <<0, 7>>
  /\ data[1].schedule_override = NoOverride
  /\ Live(1)
  /\ planner
  /\ calls >= 1
  /\ worker = <<>>
  /\ location = AddedRobot.location
  /\ ~hist[1].estimated

\* C22: When the override task runs while the planner is unavailable, no plan
\* id is assigned, the itinerary is not written, no StubbornOverride gains or
\* loses a token, and the command's data, an override installed on it before
\* included, stay exactly as they were.
C22_NoPlannerOverrideSkipped ==
  [][(RunsHead("override") /\ ~planner)
       => /\ itinerary' = itinerary
          /\ data' = data
          /\ location' = location
          /\ Len(stubborn') = Len(stubborn)
          /\ \A o \in 1..Len(stubborn) :
               stubborn'[o].stubbornness = stubborn[o].stubbornness
          /\ update_fn' = update_fn]_vars

\* A second override task of a live command has run without a planner while
\* the first override is installed: the first one still holds its token.
C22_Witness ==
  /\ ~planner
  /\ \E c \in 1..Len(data) : \E o1, o2 \in 1..Len(stubborn) :
       /\ Live(c)
       /\ o1 < o2
       /\ stubborn[o2].cmd = c
       /\ ~stubborn[o2].task
       /\ stubborn[o2].handle
       /\ ~stubborn[o2].stubbornness
       /\ data[c].schedule_override # NoOverride
       /\ data[c].schedule_override.stubborn = o1
       /\ stubborn[o1].stubbornness

\* C23: A call of add_robot with a null navigation, stop or dock callback
\* returns no update handle, adds no robot to the fleet handle and sets no
\* command handle.
C23_NullCallbacksRejected ==
  [][(fleet'.last.nav_null \/ fleet'.last.stop_null \/ fleet'.last.dock_null)
       => /\ ~fleet'.last.returned
          /\ fleet'.robots = fleet.robots
          /\ \A name \in RobotNames :
               cmd_handle(fleet', name) = "handle"
                 => cmd_handle(fleet, name) = "handle"]_vars

\* add_robot was called for a new robot on the graph with only the dock
\* callback null: nothing was returned and the fleet handle has no such robot.
C23_Witness ==
  /\ fleet.last.name = "r1"
  /\ fleet.last.dock_null
  /\ ~fleet.last.nav_null
  /\ ~fleet.last.stop_null
  /\ ~fleet.last.returned
  /\ cmd_handle(fleet, "r1") = "null"
  /\ "r1" \notin fleet.robots
  /\ "r2" \in fleet.robots

\* Tracker t has been made; every command of its queue has been begun and its
\* path-finished callback has fired.
TrackerMade(t) == t <= Len(trackers)
PathDone(t) ==
  /\ t <= Len(trackers)
  /\ trackers[t].fired = 1
  /\ \A c \in Range(trackers[t].queue) : hist[c].begun >= 1

\* C24 as claimed: with a fair worker, every begun command eventually
\* finished, no stop and no schedule override, every command of every path's
\* queue is eventually begun and its path-finished callback eventually fires.
C24_AsClaimed ==
  \A t \in 1..MaxPaths : TrackerMade(t) ~> PathDone(t)

\* C24 amended: the same for every path that stays the robot's current one; a
\* path replaced by a later follow_new_path is not continued.
C24_CurrentPathCompletes ==
  \A t \in 1..MaxPaths :
    TrackerMade(t) ~> (PathDone(t) \/ current_progress # t)

\* A path of two commands was followed to its end as the current path.
C24_Witness ==
  /\ Len(trackers) = 1
  /\ current_progress = 1
  /\ Len(trackers[1].queue) = 2
  /\ PathDone(1)

\* The polling timer hands the result of request id to the event in this step.
Delivers(id) ==
  /\ id <= Len(go_to_place.requests)
  /\ ~go_to_place.requests[id].delivered
  /\ go_to_place'.requests[id].delivered

\* C25: A path-finding result that is delivered after cancel() or kill() is
\* discarded, a successfully resolved plan included: _execute_plan does not
\* run, no command is emitted and no command sequence is made.
C25_ResultAfterCancelDiscarded ==
  [][\A id \in 1..MaxAttempts :
       (Delivers(id) /\ go_to_place.status # "active")
         => /\ go_to_place'._plan = go_to_place._plan
            /\ go_to_place'.commands = go_to_place.commands
            /\ go_to_place'._sequence = go_to_place._sequence
            /\ go_to_place'.discarded = go_to_place.discarded + 1
            /\ Len(go_to_place'.requests) = Len(go_to_place.requests)]_vars

\* The event was cancelled with its request outstanding, the request then
\* resolved with a plan and the result was handed over: no plan, no command.
C25_Witness ==
  /\ go_to_place.status = "cancelled"
  /\ Len(go_to_place.requests) = 1
  /\ go_to_place.requests[1].result = "plan"
  /\ go_to_place.requests[1].delivered
  /\ go_to_place.discarded = 1
  /\ go_to_place._plan = 0
  /\ go_to_place.commands = 0

\* C26: While the event is neither cancelled nor killed, a failed path-finding
\* attempt is followed by another attempt and the first plan that arrives is
\* executed: the executed plan is the one of the latest request, every
\* request before it failed and was retried, and exactly one command sequence
\* was emitted for it; a result delivered after cancel or kill starts no
\* attempt and executes nothing.
C26_FailureIsRetried ==
  /\ [](/\ go_to_place._plan # 0
          => /\ go_to_place._plan = Len(go_to_place.requests)
             /\ go_to_place.requests[go_to_place._plan].result = "plan"
             /\ \A id \in 1..(go_to_place._plan - 1) :
                  /\ go_to_place.requests[id].result = "failure"
                  /\ go_to_place.requests[id].delivered
             /\ go_to_place.commands = 1
        /\ go_to_place._plan = 0 => go_to_place.commands = 0)
  /\ [][\A id \in 1..MaxAttempts :
          Delivers(id)
            => IF go_to_place.status # "active"
               THEN /\ Len(go_to_place'.requests) = Len(go_to_place.requests)
                    /\ go_to_place'._plan = go_to_place._plan
               ELSE IF go_to_place.requests[id].result = "failure"
               THEN /\ Len(go_to_place'.requests) = Len(go_to_place.requests) + 1
                    /\ go_to_place'._find_path_service = Len(go_to_place'.requests)
                    /\ go_to_place'.requests[Len(go_to_place'.requests)].result
                         = "pending"
                    /\ go_to_place'.status = "active"
               ELSE go_to_place'._plan = id]_vars

\* Two attempts failed and were retried, and the plan of the third was
\* executed while the event was active.
C26_Witness ==
  /\ go_to_place.status = "active"
  /\ Len(go_to_place.requests) = 3
  /\ go_to_place.requests[1].result = "failure"
  /\ go_to_place.requests[2].result = "failure"
  /\ go_to_place._plan = 3
  /\ go_to_place.commands = 1

\* A step made in a caller's context: the worker's queue is kept and at most
\* extended. (A worker step removes the head of the queue.)
CallerStep ==
  /\ Len(worker') >= Len(worker)
  /\ SubSeq(worker', 1, Len(worker)) = worker

\* A caller's step leaves the location, the itinerary and every schedule
\* override as they are.
CallerKeepsReconciledState ==
  /\ location' = location
  /\ itinerary' = itinerary
  /\ \A c \in 1..Len(data) : data'[c] = data[c]

\* A caller's step leaves the active command as it is: the current tracker,
\* every tracker's current identifier, every identifier's update function.
CallerKeepsActiveCommand ==
  /\ current_progress' = current_progress
  /\ \A k \in 1..Len(trackers) :
       trackers'[k].current_identifier = trackers[k].current_identifier
  /\ \A c \in 1..Len(update_fn) : update_fn'[c] = update_fn[c]

\* The only changes a caller's step makes to the active command: stop clears
\* the update function of the current identifier and drops the tracker;
\* follow_new_path and dock install a new tracker; no caller's step touches
\* another identifier's update function or another tracker.
CallerChangesActiveCommandDirectly ==
  /\ \A c \in 1..Len(update_fn) :
       update_fn'[c] # update_fn[c]
         => /\ update_fn[c]
            /\ current_progress # 0
            /\ trackers[current_progress].current_identifier = c
            /\ current_progress' = 0
  /\ current_progress' # current_progress
       => \/ current_progress' = 0
          \/ current_progress' = Len(trackers) + 1
  /\ \A k \in 1..Len(trackers) :
       trackers'[k].current_identifier = trackers[k].current_identifier

\* C27 as claimed: no step made in a caller's context (stop, follow_new_path,
\* dock, finished, override_schedule, update_position) changes the location,
\* the itinerary delay, a schedule override or the active command; all of it
\* is changed by worker tasks only.
C27_AsClaimed ==
  [][CallerStep => (CallerKeepsReconciledState /\ CallerKeepsActiveCommand)]_vars

\* C27 amended: location, itinerary delay and schedule overrides are changed
\* by worker tasks only, which run in submission order; the active command is
\* also changed directly in the caller's context, by stop (update function of
\* the current identifier, current tracker) and by follow_new_path and dock
\* (new current tracker and its current identifier).
C27_ReconciledStateOnWorkerOnly ==
  [][/\ CallerStep => (CallerKeepsReconciledState /\ CallerChangesActiveCommandDirectly)
     /\ ~CallerStep => worker # <<>> /\ SubSeq(worker', 1, Len(worker) - 1) = Tail(worker)]_vars

\* stop() has cleared the current command's update function in the caller's
\* context while an update of that command is still queued behind it.
C27_Witness ==
  \E c \in 1..Len(data) :
    /\ hist[c].stopped = 1
    /\ ~update_fn[c]
    /\ current_progress = 0
    /\ worker # <<>>
    /\ Head(worker).type = "update"
    /\ Head(worker).cmd = c
    /\ hist[c].finish_tasks = 0
    /\ location = compute_plan_starts(<<0, 0>>)

\* C28 as claimed: a position update submitted without an activity identifier
\* and processed while the planner is available writes the start set of the
\* whole-graph search to the robot's location and changes no command,
\* tracker, schedule-override or itinerary state.
C28_IdleUpdateWritesLocation ==
  [][(RunsHead("update") /\ UpdCmd = 0 /\ planner)
       => /\ location' = compute_plan_starts(UpdPos)
          /\ itinerary' = itinerary
          /\ data' = data
          /\ update_fn' = update_fn
          /\ trackers' = trackers
          /\ current_progress' = current_progress
          /\ stubborn' = stubborn]_vars

\* ------------------------------------------------------------ C29 and C30
\* The path a command was cut from, its target index in that path, and the
\* commands of a tracker made by follow_new_path.
PathOf(c) == hist[c].path
Target(c) == data[c].arrival_estimator.target_index
PathTrackers == {t \in 1..Len(trackers) : trackers[t].kind = "path"}

\* C29 as claimed: for every accepted path, of a single waypoint included,
\* follow_new_path queues at least one command, the last one targets the
\* final waypoint, every path index read lies in [0, size - 1] (so size - 2
\* has not wrapped around), and the call does not crash.
C29_PathReadsInRange ==
  /\ ~fault
  /\ \A t \in PathTrackers :
       /\ trackers[t].queue # <<>>
       /\ Target(Last(trackers[t].queue)) = Len(PathOf(Last(trackers[t].queue))) - 1
  /\ \A c \in 1..Len(hist) :
       \A i \in hist[c].read : 0 <= i /\ i <= Len(PathOf(c)) - 1

\* Path index i is matched to a location by its graph index, or (past the
\* first index) by one of its approach lanes.
MatchesWaypoint(path, loc, i) ==
  /\ path[i + 1].graph_index # NoIndex
  /\ \E l \in 1..Len(loc) : loc[l].waypoint = path[i + 1].graph_index

MatchesLane(path, loc, i) ==
  /\ i > 0
  /\ \E k \in 1..Len(path[i + 1].approach_lanes), l \in 1..Len(loc) :
       loc[l].lane # NoLane /\ loc[l].lane = path[i + 1].approach_lanes[k]

\* The last path index matched to the location (the index before it when the
\* match is by lane), clamped to n - 2.
StartIndex(path, loc) ==
  LET n == Len(path)
      matched == {i \in 0..(n - 1) :
                    MatchesWaypoint(path, loc, i) \/ MatchesLane(path, loc, i)}
      m == CHOOSE i \in matched : \A j \in matched : j <= i
      found == IF MatchesLane(path, loc, m) THEN m - 1 ELSE m
  IN  IF found >= n - 1 THEN n - 2 ELSE found

\* C30: for an accepted path of n >= 2 waypoints (the robot's location is the
\* one the path was accepted at), the first command starts from the last
\* path index matched to the location, clamped to n - 2; the target indices
\* of the successive commands are strictly increasing and all greater than
\* that start index; and the last command's target index is n - 1.
C30_TargetsIncreaseToEnd ==
  \A t \in PathTrackers :
    LET q == trackers[t].queue
    IN  (q # <<>> /\ Len(PathOf(q[1])) >= 2) =>
          LET path == PathOf(q[1])
              i0 == StartIndex(path, location)
          IN  /\ i0 \in hist[q[1]].read
              /\ \A i \in hist[q[1]].read : i >= i0
              /\ \A k \in 1..Len(q) : Target(q[k]) > i0
              /\ \A k \in 1..(Len(q) - 1) : Target(q[k]) < Target(q[k + 1])
              /\ Target(Last(q)) = Len(path) - 1

\* One path was started past its first index, and one was cut into two
\* commands the first of which skips a rotation.
C30_Witness ==
  /\ \E t \in PathTrackers :
       /\ trackers[t].queue # <<>>
       /\ Len(PathOf(trackers[t].queue[1])) >= 3
       /\ StartIndex(PathOf(trackers[t].queue[1]), location) > 0
  /\ \E t \in PathTrackers :
       /\ Len(trackers[t].queue) = 2
       /\ Target(trackers[t].queue[1]) = 2
       /\ Target(trackers[t].queue[2]) = 3

\* ------------------------------------------------------------------- C31
\* The path index a command starts from and the one it approaches.
From(c) == CHOOSE i \in hist[c].read : \A j \in hist[c].read : i <= j
Approached(c) == From(c) + 1

\* Path indices i and j carry the same graph index.
SameGraphIndex(path, i, j) ==
  /\ path[i + 1].graph_index # NoIndex
  /\ path[i + 1].graph_index = path[j + 1].graph_index

\* The commands cut from a path of two or more waypoints.
PathCmds == {c \in Cmds : Len(PathOf(c)) >= 2}

\* A waypoint that only rotates after the one a command approaches is that
\* command's target.
RotationMerged ==
  \A c \in PathCmds :
    (/\ Approached(c) + 1 < Len(PathOf(c))
     /\ SameGraphIndex(PathOf(c), Approached(c), Approached(c) + 1))
      => Target(c) = Approached(c) + 1

\* C31 as claimed: with skip_rotation_commands, no command goes from a plan
\* waypoint to a next one with the same graph index, and a waypoint that only
\* rotates is the target of the command it is merged into.
C31_AsClaimed ==
  /\ RotationMerged
  /\ \A c \in PathCmds : ~SameGraphIndex(PathOf(c), From(c), Approached(c))

\* C31: with skip_rotation_commands, a waypoint that only rotates is the
\* target of the command it is merged into, and a command goes from a plan
\* waypoint to a next one with the same graph index only as the first command
\* of its path (from the start index) or right after a command that has
\* merged a rotation.
C31_RotationMergedPastStart ==
  /\ RotationMerged
  /\ \A t \in PathTrackers :
       \A k \in 1..Len(trackers[t].queue) :
         LET c == trackers[t].queue[k]
         IN  (c \in PathCmds /\ SameGraphIndex(PathOf(c), From(c), Approached(c)))
               => \/ k = 1
                  \/ Target(trackers[t].queue[k - 1])
                       = Approached(trackers[t].queue[k - 1]) + 1

\* A path with a turn at W1 was cut into two commands, the first one merging
\* the turn, and another path got a first command that only turns.
C31_Witness ==
  /\ \E t \in PathTrackers :
       /\ Len(trackers[t].queue) = 2
       /\ PathOf(trackers[t].queue[1]) = PathC
       /\ Target(trackers[t].queue[1]) = Approached(trackers[t].queue[1]) + 1
  /\ \E c \in PathCmds : SameGraphIndex(PathOf(c), From(c), Approached(c))

\* ------------------------------------------------------------------- C32
\* No index of the path is matched to the location, by waypoint or by lane.
NoMatch(path, loc) ==
  \A i \in 0..(Len(path) - 1) :
    ~MatchesWaypoint(path, loc, i) /\ ~MatchesLane(path, loc, i)

\* The inputs follow_new_path turns down.
Rejected(waypoints, estimator_null, callback_null) ==
  \/ waypoints = <<>>
  \/ estimator_null
  \/ callback_null
  \/ ~planner
  \/ NoMatch(waypoints, location)

\* C32: a follow_new_path call with an empty path, a null arrival estimator
\* or completion callback, no planner, or a path not connected to the robot's
\* location begins no command, fires no completion callback and leaves the
\* tracker and its current command as they were; it requests a replan exactly
\* when the inputs are valid, the planner is there and the path is not
\* connected.
C32_RejectedPathChangesNothing ==
  [][\A waypoints \in RejectPaths, estimator_null, callback_null, sync \in BOOLEAN,
        oob \in OutOfBounds :
       (/\ CallFollowNewPath(waypoints, estimator_null, callback_null, sync, oob)
        /\ Rejected(waypoints, estimator_null, callback_null))
         => /\ hist' = hist
            /\ trackers' = trackers
            /\ current_progress' = current_progress
            /\ data' = data
            /\ update_fn' = update_fn
            /\ impl' = impl
            /\ worker' = worker
            /\ replan_requested' =
                 (replan_requested \/
                    (/\ waypoints # <<>> /\ ~estimator_null /\ ~callback_null
                     /\ planner /\ NoMatch(waypoints, location)))]_vars

\* A path not connected to the robot has been turned down with a replan
\* request while the command of an earlier path is current and live.
C32_Witness ==
  /\ replan_requested
  /\ current_progress # 0
  /\ trackers[current_progress].current_identifier # 0
  /\ update_fn[trackers[current_progress].current_identifier]
  /\ hist[trackers[current_progress].current_identifier].begun = 1

\* ------------------------------------------------------------------- C33
\* The identifier of the current tracker's current command, or 0.
CurrentCommand ==
  IF current_progress = 0 THEN 0
  ELSE trackers[current_progress].current_identifier

\* C33: stop() changes nothing and invokes no stop-request callback when
\* there is no tracker or the tracker has no current command; otherwise it
\* clears the current command's update function, drops the tracker and
\* invokes the stop-request callback once, with that command's identifier,
\* which is inert by then; so a stop() right after a stop() changes nothing.
C33_StopOnceOnCurrent ==
  [][CallStop =>
       /\ UNCHANGED <<planner, closed_lanes, location, itinerary, data, impl,
                      trackers, worker, stubborn, replan_requested, fault,
                      fleet, go_to_place>>
       /\ current_progress' = 0 \/ UNCHANGED current_progress
       /\ CurrentCommand' = 0
       /\ IF CurrentCommand = 0
          THEN UNCHANGED <<update_fn, current_progress, hist>>
          ELSE /\ current_progress' = 0
               /\ update_fn' = [update_fn EXCEPT ![CurrentCommand] = FALSE]
               /\ hist' = [hist EXCEPT ![CurrentCommand].stopped = @ + 1]
               /\ ~hist'[CurrentCommand].stopped_live]_vars

\* stop() has been called twice in a row on a robot that had a live current
\* command: the stop-request callback ran once.
C33_Witness ==
  /\ calls >= 3
  /\ current_progress = 0
  /\ \E c \in Cmds :
       /\ hist[c].stopped = 1
       /\ hist[c].begun = 1
       /\ hist[c].finish_tasks = 0
       /\ Len(data) = 1
       /\ worker = <<>>

\* ------------------------------------------------------------------- C34
\* The update being run completes reconciliation: the planner is there and
\* every hint index the update checks is in the graph (lane hints are checked
\* only when no hinted waypoint is in range).
ReconciliationCompletes ==
  /\ planner
  /\ ~BadWaypointHint(UpdCmd)
  /\ ~(HintedWaypointsInRange(UpdCmd, UpdPos) = {} /\ BadLaneHint(UpdCmd))

\* C34: a location update of a live command invokes the command's arrival
\* estimator if and only if there is no schedule override on the command, the
\* update completes reconciliation and the command has a hinted waypoint; it
\* invokes it once, and the location the estimator finds written is the new
\* one.
C34_EstimateIffReconciled ==
  [][LiveUpdateRuns =>
       IF /\ data[UpdCmd].schedule_override = NoOverride
          /\ ReconciliationCompletes
          /\ data[UpdCmd].waypoints # <<>>
       THEN /\ hist'[UpdCmd].estimates = hist[UpdCmd].estimates + 1
            /\ hist'[UpdCmd].estimate_location = location'
       ELSE hist'[UpdCmd].estimates = hist[UpdCmd].estimates]_vars

\* An update has moved the robot off the place it was added at and invoked
\* the arrival estimator, once.
C34_Witness ==
  /\ hist[1].estimates = 1
  /\ calls = 1
  /\ worker = <<>>
  /\ location # AddedRobot.location
  /\ hist[1].estimate_location = location

\* ------------------------------------------------------------------- C35
\* The override of the command whose update is run, the segments of its
\* trajectory the position projects into, and the delay written last.
UpdOverride == data[UpdCmd].schedule_override
UpdSegments ==
  {i \in 1..(Len(UpdOverride.route) - 1) :
     projects_within(UpdPos, UpdOverride.route[i].position,
                     UpdOverride.route[i + 1].position)}

\* The expected time at the position's projection on segment i.
SegmentTime(i) ==
  LET wp0 == UpdOverride.route[i]
      wp1 == UpdOverride.route[i + 1]
  IN  wp0.time + (Along(UpdPos, wp0.position, wp1.position) * (wp1.time - wp0.time))
                   \div Len2(wp0.position, wp1.position)

\* The delay the update writes: from a segment no farther from the position
\* than any other it projects into; without such a segment from a trajectory
\* sample no farther than any other; and none for an empty route.
OverrideDelayWritten ==
  LET route == UpdOverride.route
      nearer(j, i) == closer(UpdPos, route[j].position, route[j + 1].position,
                                     route[i].position, route[i + 1].position)
      d(i) == Norm2(Sub(UpdPos, route[i].position))
  IN  IF UpdSegments # {}
      THEN \E i \in UpdSegments :
             /\ \A j \in UpdSegments : ~nearer(j, i)
             /\ itinerary'.delay =
                  [plan_id |-> UpdOverride.plan_id, t_expected |-> SegmentTime(i),
                   threshold |-> 1]
      ELSE IF route # <<>>
      THEN \E i \in 1..Len(route) :
             /\ \A j \in 1..Len(route) : d(i) <= d(j)
             /\ itinerary'.delay =
                  [plan_id |-> UpdOverride.plan_id, t_expected |-> route[i].time,
                   threshold |-> 1]
      ELSE itinerary' = itinerary

\* The worker runs a position update of a live command with an override.
OverriddenUpdateRuns ==
  /\ LiveUpdateRuns
  /\ UpdOverride # NoOverride

\* C35 as claimed: an update on an override writes the delay of the closest
\* segment the position projects into and does no whole-graph reconciliation;
\* without such a segment it writes the delay of the nearest sample (none for
\* an empty route) and does the whole-graph reconciliation.
C35_AsClaimed ==
  [][(OverriddenUpdateRuns /\ planner)
       => /\ OverrideDelayWritten
          /\ IF UpdSegments # {}
             THEN location' = location
             ELSE location' = compute_plan_starts(UpdPos)]_vars

\* C35: an update on an override writes the delay of the closest segment the
\* position projects into, under the override's plan id and with a threshold
\* of 1 s; without such a segment it writes the delay of the nearest sample,
\* and none for an empty route; in each case it then does the whole-graph
\* reconciliation if the planner is available, and leaves the location as it
\* is if not.
C35_OverrideDelayThenStarts ==
  [][OverriddenUpdateRuns
       => /\ OverrideDelayWritten
          /\ IF planner
             THEN location' = compute_plan_starts(UpdPos)
             ELSE location' = location]_vars

\* An update beside both segments of an override, nearer to the second, has
\* written the delay of the second segment and the whole-graph starts.
C35_Witness ==
  /\ Len(data) = 1
  /\ Len(data[1].schedule_override.route) = 3
  /\ calls = 1
  /\ worker = <<>>
  /\ itinerary.delay = [plan_id |-> data[1].schedule_override.plan_id,
                        t_expected |-> 30, threshold |-> 1]
  /\ location = compute_plan_starts(<<18, 10>>)

\* ------------------------------------------------------------------- C36
\* What a dock call with a planner leaves: one more command, begun once
\* through the dock-request callback with that dock name, alone in a new
\* tracker that is the current one; without hints if no lane has the dock.
DockIssued(dock_name) ==
  LET c == Len(data) + 1
      t == Len(trackers) + 1
  IN  /\ Len(data') = c
      /\ Len(trackers') = t
      /\ current_progress' = t
      /\ trackers'[t].queue = <<c>>
      /\ trackers'[t].current_identifier = c
      /\ SubSeq(trackers', 1, t - 1) = trackers
      /\ impl'[c].begin = "dock"
      /\ hist'[c].begun = 1
      /\ hist'[c].dock_name = dock_name
      /\ update_fn'[c]
      /\ found_lane(dock_name) = NoLane
           => data'[c].waypoints = <<>> /\ data'[c].lanes = <<>>

\* What a dock call without a planner leaves: everything but the call count.
DockSkipped ==
  UNCHANGED <<data, update_fn, impl, trackers, current_progress, worker, hist,
              location, itinerary, stubborn, replan_requested>>

\* The completion callback of a dock tracker has fired only if the finish
\* task of its command has advanced the tracker.
DockFinishedAfterCommand ==
  \A t \in Trackers :
    (trackers[t].kind = "dock" /\ trackers[t].fired > 0)
      => /\ trackers[t].fired = 1
         /\ hist[trackers[t].queue[1]].advanced = 1
         /\ ~update_fn[trackers[t].queue[1]]

\* A location update of a live dock command without hints takes the starts
\* of the whole-graph search and invokes no arrival estimate.
HintlessDockUpdate ==
  (/\ LiveUpdateRuns
   /\ impl[UpdCmd].begin = "dock"
   /\ data[UpdCmd].waypoints = <<>>
   /\ planner)
    => /\ location' = compute_plan_starts(UpdPos)
       /\ hist'[UpdCmd].estimates = 0
       /\ itinerary' = itinerary

\* C36: dock() with a planner always makes a tracker of exactly one command,
\* begun through the dock-request callback with the dock name, also when no
\* lane carries a dock of that name, and then with empty hints, so that its
\* location updates use the whole-graph search and invoke no arrival
\* estimate; the docking-finished callback fires only after that command has
\* finished; without a planner nothing is issued and the tracker stays.
C36_DockIssuesOneCommand ==
  /\ []DockFinishedAfterCommand
  /\ [][HintlessDockUpdate]_vars
  /\ [][\A dock_name \in DockNames, sync \in BOOLEAN :
          CallDock(dock_name, sync)
            => IF planner THEN DockIssued(dock_name) ELSE DockSkipped]_vars

\* A dock that no lane carries was begun, its location was updated from the
\* whole graph, and its docking-finished callback has fired.
C36_Witness ==
  \E t \in Trackers :
    /\ trackers[t].kind = "dock"
    /\ trackers[t].fired = 1
    /\ data[trackers[t].queue[1]].waypoints = <<>>
    /\ hist[trackers[t].queue[1]].dock_name = "dock_x"
    /\ location = compute_plan_starts(<<10, 5>>)

\* ------------------------------------------------------------------- C37
\* The names add_robot holds an entry for.
RegisteredNames == {fleet.cmd_handles[i].name : i \in 1..Len(fleet.cmd_handles)}

\* C37 as claimed: an add_robot call with a null callback or an initial pose
\* without start set leaves the registered names as they were, and an
\* add_robot call with valid arguments for a name not added successfully
\* before is accepted; a call for a name added successfully is ignored.
C37_RejectedNameStaysFree ==
  [][\A name \in RobotNames, p \in InitialLocations,
        nav_null, stop_null, dock_null \in BOOLEAN :
       CallAddRobot(name, p, nav_null, stop_null, dock_null)
         => LET valid == /\ ~nav_null /\ ~stop_null /\ ~dock_null
                         /\ compute_plan_starts(p) # <<>>
            IN  /\ ~valid => RegisteredNames' = RegisteredNames
                /\ (valid /\ name \notin fleet.robots)
                     => fleet'.last.returned /\ name \in fleet'.robots
                /\ name \in fleet.robots
                     => ~fleet'.last.returned /\ fleet'.robots = fleet.robots]_vars

\* ------------------------------------------------------------ C38 and C39
\* The StubbornOverride the override task at the head of the queue was
\* scheduled with.
RunOverrideOf == Head(worker).stubborn

\* C38: when the worker runs the override task of an override_schedule call
\* whose handle the caller has already released or dropped, no token of that
\* call is held once the task is gone, whether or not the command is still
\* live, and none is held later.
C38_DroppedHandleLeavesNoToken ==
  /\ [][(RunsHead("override") /\ ~stubborn[RunOverrideOf].handle)
         => /\ ~stubborn'[RunOverrideOf].stubbornness
            /\ ~stubborn'[RunOverrideOf].task]_vars
  /\ [][\A o \in Overrides :
          (~stubborn[o].handle /\ ~stubborn[o].task /\ ~stubborn[o].stubbornness)
            => ~stubborn'[o].stubbornness]_vars

\* The override of a call whose handle was released first is installed on a
\* command that is still live, and the call holds no token.
C38_Witness ==
  \E o \in Overrides :
    /\ ~stubborn[o].handle
    /\ ~stubborn[o].task
    /\ ~stubborn[o].stubbornness
    /\ data[stubborn[o].cmd].schedule_override.stubborn = o
    /\ update_fn[stubborn[o].cmd]
    /\ hist[stubborn[o].cmd].finish_tasks = 0

\* The StubbornOverrides made for command c that hold a token.
TokensOf(c) == {o \in Overrides : stubborn[o].cmd = c /\ stubborn[o].stubbornness}

\* C39: a command holds at most one stubbornness token at any time; an
\* override task that installs an override leaves no token with any earlier
\* override of the command; and once the finish task of a command that was
\* not stopped has run, no token of the command is held.
C39_AtMostOneToken ==
  /\ [](\A c \in Cmds :
          /\ Cardinality(TokensOf(c)) <= 1
          /\ (hist[c].finish_tasks >= 1 /\ hist[c].stopped = 0) => TokensOf(c) = {})
  /\ [][(/\ RunsHead("override")
         /\ data'[Head(worker).cmd].schedule_override.stubborn = RunOverrideOf)
         => \A o \in Overrides :
              (o # RunOverrideOf /\ stubborn[o].cmd = Head(worker).cmd)
                => ~stubborn'[o].stubbornness]_vars

\* A second override is installed on a live command and holds the token; the
\* first one's handle is still held and its token is gone.
C39_Witness ==
  \E o1, o2 \in Overrides :
    /\ o1 < o2
    /\ stubborn[o1].cmd = stubborn[o2].cmd
    /\ stubborn[o1].handle
    /\ ~stubborn[o1].stubbornness
    /\ stubborn[o2].stubbornness
    /\ data[stubborn[o2].cmd].schedule_override.stubborn = o2
    /\ update_fn[stubborn[o2].cmd]

\* ------------------------------------------------------------------- C40
\* The begin callbacks and completion callbacks invoked so far.
BeginsAndCompletions ==
  <<[c \in Cmds |-> hist[c].begun], [t \in Trackers |-> trackers[t].fired]>>

\* C40: a finish task for a command of a tracker that a later
\* follow_new_path or dock has superseded, or that stop() has dropped, begins
\* no command and fires no completion callback of any tracker; a finish task
\* that advances a tracker is for the current command of the current tracker.
C40_StaleFinishAdvancesNothing ==
  /\ [][(RunsHead("finish") /\ Head(worker).finisher # current_progress)
         => /\ BeginsAndCompletions' = BeginsAndCompletions
            /\ trackers' = trackers
            /\ current_progress' = current_progress]_vars
  /\ [][(RunsHead("finish") /\ (BeginsAndCompletions' # BeginsAndCompletions
                                  \/ trackers' # trackers))
         => /\ current_progress # 0
            /\ Head(worker).finisher = current_progress
            /\ Head(worker).cmd = trackers[current_progress].current_identifier]_vars

\* The finish task of the first command of a superseded two-command path has
\* run while the command was live: the second command was not begun, no
\* completion was fired, and the later tracker is current.
C40_Witness ==
  \E t \in Trackers :
    /\ current_progress # 0
    /\ current_progress # t
    /\ Len(QueueOf(t)) = 2
    /\ hist[QueueOf(t)[1]].finish_tasks = 1
    /\ hist[QueueOf(t)[1]].stopped = 0
    /\ ~update_fn[QueueOf(t)[1]]
    /\ hist[QueueOf(t)[1]].advanced = 0
    /\ hist[QueueOf(t)[2]].begun = 0
    /\ trackers[t].fired = 0

====
